---- MODULE Spec2Model ----
(***************************************************************************)
(* Model of the schema-driven module generator                             *)
(* (src/genAI-produced/modulegenerator-claude.py): schema introspection,   *)
(* accessor synthesis, module emission, and the behaviour of the emitted   *)
(* accessors and record-normalisation helpers when they are called.        *)
(*                                                                         *)
(* Strings that the code transforms (labels, relationship types) are       *)
(* sequences of one-character strings; strings it only compares or copies  *)
(* (property names, URIs, values) are TLA+ strings.  A Python value is a   *)
(* record [ty |-> runtime type name, v |-> its text].  A Python dict with  *)
(* string keys is a function from those keys.                              *)
(***************************************************************************)
EXTENDS Integers, Sequences, FiniteSets, TLC

\* ------------------------------------------------------------------ bounds
MaxRuns == 2

\* ------------------------------------------------------- Python values
NoneV == [ty |-> "NoneType", v |-> "None"]

StrV(s) == [ty |-> "str", v |-> s]

IntV(s) == [ty |-> "int", v |-> s]

FloatV(s) == [ty |-> "float", v |-> s]

BoolV(s) == [ty |-> "bool", v |-> s]

\* a str given by its characters
NameV(chars) == [ty |-> "str", chars |-> chars]

\* a list, by its items
ListV(items) == [ty |-> "list", items |-> items]

\* a dict value, by the function it is
MapV(d) == [ty |-> "dict", d |-> d]

\* a datetime.date, by its ISO text
DateV(s) == [ty |-> "datetime.date", v |-> s]

\* a neo4j.spatial.Point, by its coordinates' text
PointV(s) == [ty |-> "Point", v |-> s]

\* the object bound to `self` when an accessor is called on the instance
NodesInstance == [ty |-> "Nodes", v |-> "<Nodes object>"]

EmptyDict == [k \in {} |-> NoneV]

DictSet(d, k, val) == [x \in (DOMAIN d) \cup {k} |-> IF x = k THEN val ELSE d[x]]

DictGet(d, k, default) == IF k \in DOMAIN d THEN d[k] ELSE default

\* ------------------------------------------------------- str methods
UpperChars == <<"A", "C", "E", "I", "K", "M", "N", "O", "P", "R", "S", "V", "W">>

LowerChars == <<"a", "c", "e", "i", "k", "m", "n", "o", "p", "r", "s", "v", "w">>

\* str.lower() on one character
LowerChar(c) ==
    IF \E i \in 1..Len(UpperChars) : UpperChars[i] = c
    THEN LowerChars[CHOOSE i \in 1..Len(UpperChars) : UpperChars[i] = c]
    ELSE c

StrLower(s) == [i \in 1..Len(s) |-> LowerChar(s[i])]

\* str.replace(old, new) for one-character old and new
StrReplace(s, old, new) == [i \in 1..Len(s) |-> IF s[i] = old THEN new ELSE s[i]]

\* label.lower().replace(':', '_').replace('-', '_')
FunctionName(label) == StrReplace(StrReplace(StrLower(label), ":", "_"), "-", "_")

\* ------------------------------------------------------- the stores
Person == <<"P", "e", "r", "s", "o", "n">>

PERSON == <<"P", "E", "R", "S", "O", "N">>

Movie == <<"M", "o", "v", "i", "e">>

Category == <<"C", "a", "t">>

KNOWS == <<"K", "N", "O", "W", "S">>

IN_CAT == <<"I", "N", "-", "C">>

AllLabels == <<Person, Movie, PERSON, Category>>

\* the order in which keys(n) lists the property names of an entity
PropOrder == <<"uuid", "name", "age", "since", "tags", "released", "site">>

\* Scenario A of the specification: one Person {name: "Ada", age: 36}
StoreA ==
    [labels |-> <<Person>>,
     nodes |-> << [labels |-> {Person},
                   props |-> [name |-> StrV("Ada"), age |-> IntV("36")]] >>,
     edgeTypes |-> <<>>,
     rels |-> <<>>]

\* A store with labels that differ only in case, entities with and without
\* a uuid property, an entity without properties, list, date and point
\* properties, and two relationship types
StoreB ==
    [labels |-> <<Person, Movie, PERSON, Category>>,
     nodes |-> << [labels |-> {Person},
                   props |-> [name |-> StrV("Ada"), age |-> IntV("36")]],
                  [labels |-> {Person},
                   props |-> [name |-> StrV("Bob"), age |-> StrV("36")]],
                  [labels |-> {Movie},
                   props |-> [uuid |-> StrV("u1"), name |-> StrV("Alien"),
                              tags |-> ListV(<<StrV("scifi")>>),
                              released |-> DateV("1979-05-25"),
                              site |-> PointV("0,0")]],
                  [labels |-> {Movie},
                   props |-> [uuid |-> StrV("u2"), name |-> StrV("Brazil")]],
                  [labels |-> {PERSON},
                   props |-> [uuid |-> IntV("7")]],
                  [labels |-> {Category},
                   props |-> EmptyDict],
                  [labels |-> {Category},
                   props |-> EmptyDict] >>,
     edgeTypes |-> <<KNOWS, IN_CAT>>,
     rels |-> << [type |-> KNOWS, src |-> 1, dst |-> 2,
                  props |-> [since |-> IntV("2020")]],
                 [type |-> KNOWS, src |-> 5, dst |-> 1,
                  props |-> [since |-> IntV("2021")]],
                 [type |-> KNOWS, src |-> 2, dst |-> 5,
                  props |-> [since |-> IntV("2021")]],
                 [type |-> IN_CAT, src |-> 3, dst |-> 6,
                  props |-> EmptyDict] >>]

StoreChoices == {StoreA, StoreB}

\* ------------------------------------------------------- connection profile
DefaultUri == "bolt://localhost:7687"

RemoteUri == "bolt://remote:7687"

Uris == {DefaultUri, RemoteUri}

\* the module-level `profile` dict as the module body leaves it
ProfileInit ==
    [uri |-> DefaultUri, database |-> "neo4j",
     username |-> "neo4j", password |-> "neo4j-dev"]

None == "None"

\* ------------------------------------------------------- sequence helpers
RECURSIVE Distinct(_)
\* the rows of a RETURN DISTINCT, in order of first appearance
Distinct(s) ==
    IF s = <<>> THEN <<>>
    ELSE LET rest == Distinct(SubSeq(s, 1, Len(s) - 1))
             last == s[Len(s)]
         IN IF \E i \in 1..Len(rest) : rest[i] = last THEN rest ELSE Append(rest, last)

RECURSIVE Flatten(_)
Flatten(ss) == IF ss = <<>> THEN <<>> ELSE Head(ss) \o Flatten(Tail(ss))

Range(s) == {s[i] : i \in 1..Len(s)}

Take(s, n) == SubSeq(s, 1, IF Len(s) < n THEN Len(s) ELSE n)

\* ------------------------------------------------------- what the store answers
\* apoc.meta.type(value)
ApocType(val) ==
    CASE val.ty = "str" -> "STRING"
      [] val.ty = "int" -> "INTEGER"
      [] val.ty = "float" -> "FLOAT"
      [] val.ty = "bool" -> "BOOLEAN"
      [] val.ty = "list" -> "LIST"
      [] val.ty = "datetime.date" -> "DATE"
      [] val.ty = "Point" -> "POINT"
      [] OTHER -> "MAP"

\* keys(n), in the store's order
KeysOf(d) == SelectSeq(PropOrder, LAMBDA k : k \in DOMAIN d)

\* UNWIND keys(x) AS key RETURN DISTINCT key, apoc.meta.type(x[key]) AS type
KeyTypeRows(entities) ==
    Distinct(Flatten([i \in 1..Len(entities) |->
        LET d == entities[i].props
            ks == KeysOf(d)
        IN [j \in 1..Len(ks) |-> [key |-> ks[j], type |-> ApocType(d[ks[j]])]]]))

EdgeSampleLimit == 1000

\* Queries.node_properties(label): no LIMIT (limit=None)
NodePropertiesRows(st, label) ==
    KeyTypeRows(SelectSeq(st.nodes, LAMBDA n : label \in n.labels))

\* Queries.edge_properties(type): LIMIT 1000
EdgePropertiesRows(st, type) ==
    KeyTypeRows(Take(SelectSeq(st.rels, LAMBDA r : r.type = type), EdgeSampleLimit))

\* labels(a), as a list in the store's label order
LabelList(st, n) == SelectSeq(st.labels, LAMBDA l : l \in st.nodes[n].labels)

\* Queries.edge_endpoints(type): LIMIT 1000, DISTINCT labels(a), labels(b)
EdgeEndpointsRows(st, type) ==
    LET rs == Take(SelectSeq(st.rels, LAMBDA r : r.type = type), EdgeSampleLimit)
    IN Distinct([i \in 1..Len(rs) |->
           [startLabels |-> LabelList(st, rs[i].src),
            endLabels |-> LabelList(st, rs[i].dst)]])

\* ------------------------------------------------------- schema calls
\* an insertion-ordered dict as a sequence of [key, val] with distinct keys
OrderedSet(od, k, val) ==
    IF \E i \in 1..Len(od) : od[i].key = k
    THEN [i \in 1..Len(od) |-> IF od[i].key = k THEN [key |-> k, val |-> val] ELSE od[i]]
    ELSE Append(od, [key |-> k, val |-> val])

RECURSIVE PropertiesFromRows(_)
\* properties = {}; for result in results: properties[result['key']] = result['type']
PropertiesFromRows(rows) ==
    IF rows = <<>> THEN <<>>
    ELSE LET r == rows[Len(rows)]
         IN OrderedSet(PropertiesFromRows(SubSeq(rows, 1, Len(rows) - 1)), r.key, r.type)

_get_node_labels(st) == st.labels

_get_node_properties(st, label) == PropertiesFromRows(NodePropertiesRows(st, label))

_get_edge_types(st) == st.edgeTypes

_get_edge_properties(st, type) == PropertiesFromRows(EdgePropertiesRows(st, type))

\* the iteration order of a set of str depends on the interpreter's hash seed:
\* seed 0 lists the elements in the order of `universe`, any other seed in the
\* reverse order
ListOfSet(S, universe, seed) ==
    LET asc == SelectSeq(universe, LAMBDA l : l \in S)
    IN IF seed = 0 THEN asc ELSE [i \in 1..Len(asc) |-> asc[Len(asc) + 1 - i]]

_get_edge_endpoints(st, type, seed) ==
    LET rows == EdgeEndpointsRows(st, type)
        startLabels == UNION {Range(rows[i].startLabels) : i \in 1..Len(rows)}
        endLabels == UNION {Range(rows[i].endLabels) : i \in 1..Len(rows)}
    IN <<ListOfSet(startLabels, st.labels, seed), ListOfSet(endLabels, st.labels, seed)>>

_collect_metadata(st, seed) ==
    [node_labels |-> _get_node_labels(st),
     node_properties |-> [l \in Range(_get_node_labels(st)) |-> _get_node_properties(st, l)],
     edge_types |-> _get_edge_types(st),
     edge_properties |-> [t \in Range(_get_edge_types(st)) |-> _get_edge_properties(st, t)],
     edge_endpoints |-> [t \in Range(_get_edge_types(st)) |-> _get_edge_endpoints(st, t, seed)]]

\* the introspection queries _collect_metadata sends, in order
CollectQueries(st) ==
    <<"node_labels">>
    \o [i \in 1..Len(st.labels) |-> "node_properties"]
    \o <<"edge_types">>
    \o Flatten([i \in 1..Len(st.edgeTypes) |-> <<"edge_properties", "edge_endpoints">>])

\* ------------------------------------------------------- accessor synthesis
\* (a variant without the default of the lookup)
TypeMappingNoDefault(property_type) ==
    CASE property_type = "STRING" -> "str"
      [] property_type = "INTEGER" -> "int"
      [] property_type = "FLOAT" -> "float"
      [] property_type = "BOOLEAN" -> "bool"
      [] property_type = "DATE" -> "datetime.date"
      [] property_type = "DATETIME" -> "datetime.datetime"
      [] property_type = "LIST" -> "list"
      [] property_type = "MAP" -> "dict"
      [] OTHER -> None

\* type_mapping.get(property_type, 'object')
TypeMapping(property_type) ==
    CASE property_type = "STRING" -> "str"
      [] property_type = "INTEGER" -> "int"
      [] property_type = "FLOAT" -> "float"
      [] property_type = "BOOLEAN" -> "bool"
      [] property_type = "DATE" -> "datetime.date"
      [] property_type = "DATETIME" -> "datetime.datetime"
      [] property_type = "LIST" -> "list"
      [] property_type = "MAP" -> "dict"
      [] OTHER -> "object"

\* the type-checking block emitted for one property: the property it looks up
\* in `props` and the Python type it tests and converts with
_generate_type_checking_code(property_name, property_type) ==
    [prop |-> property_name, python_type |-> TypeMapping(property_type)]

\* (a variant that emits no def for an empty property map)
InterfaceFunctionsForProperties(names, properties) ==
    LET known == SelectSeq(names, LAMBDA n : properties[n] # <<>>)
    IN [i \in 1..Len(known) |->
          [name |-> FunctionName(known[i]),
           entity |-> known[i],
           checks |-> [j \in 1..Len(properties[known[i]]) |->
                         _generate_type_checking_code(properties[known[i]][j].key,
                                                      properties[known[i]][j].val)]]]

\* one `def` per entry of `names`, in order: its name, the label or type its
\* query is scoped to, and its type-checking blocks in properties.items() order
InterfaceFunctions(names, properties) ==
    [i \in 1..Len(names) |->
        LET props == IF names[i] \in DOMAIN properties THEN properties[names[i]] ELSE <<>>
        IN [name |-> FunctionName(names[i]),
            entity |-> names[i],
            checks |-> [j \in 1..Len(props) |->
                          _generate_type_checking_code(props[j].key, props[j].val)]]]

_generate_node_interface_functions(md) ==
    InterfaceFunctions(md.node_labels, md.node_properties)

_generate_edge_interface_functions(md) ==
    InterfaceFunctions(md.edge_types, md.edge_properties)

\* the attribute `name` of a class whose body is the sequence `defs`: a later
\* def of the same name rebinds it
HasAttr(defs, name) == \E i \in 1..Len(defs) : defs[i].name = name

RECURSIVE LastIndex(_, _)
LastIndex(defs, name) ==
    IF defs[Len(defs)].name = name THEN Len(defs)
    ELSE LastIndex(SubSeq(defs, 1, Len(defs) - 1), name)

GetAttr(defs, name) == defs[LastIndex(defs, name)]

\* ------------------------------------------------------- the emitted file
\* (a variant that writes the schema literal after the accessor classes)
PartsSchemaLast ==
    <<"header", "imports", "connection", "_authenticated_driver", "_query",
      "_server_timestamp", "_neo4j_node_to_dict", "_neo4j_relationship_to_dict",
      "Queries", "Nodes", "Edges", "METADATA", "interface">>

\* the _append calls of generate_module, in order
Parts ==
    <<"header", "imports", "connection", "_authenticated_driver", "_query",
      "_server_timestamp", "_neo4j_node_to_dict", "_neo4j_relationship_to_dict",
      "Queries", "METADATA", "Nodes", "Edges", "interface">>

\* the names that executing a part of the module binds at module level
DefinesOf(p) ==
    CASE p = "header" -> {}
      [] p = "imports" -> {"datetime", "neo4j", "GraphDatabase"}
      [] p = "connection" ->
           {"NEO4J_URI", "NEO4J_USERNAME", "NEO4J_PASSWORD", "NEO4J_DATABASE"}
      [] p = "interface" ->
           {"nodes", "edges", "connect", "execute_query", "server_timestamp"}
      [] OTHER -> {p}

\* the module-level names that executing a part evaluates: the default
\* arguments of a copied def, the calls in the interface block (the bodies of
\* the functions are not evaluated at import)
EvaluatedAtImport(p) ==
    CASE p = "_authenticated_driver" -> {"profile"}
      [] p = "interface" -> {"Nodes", "Edges"}
      [] OTHER -> {}

\* the chunks of a module text whose execution, at import, raises NameError
NameErrors(f) ==
    {i \in 1..Len(f) :
        ~(EvaluatedAtImport(f[i].part) \subseteq
            UNION {DefinesOf(f[j].part) : j \in 1..(i - 1)})}

NoFile == <<>>

OldFile == <<[part |-> "old", run |-> 0, whole |-> TRUE]>>

\* the text a complete run r writes
ModuleText(r) == [i \in 1..Len(Parts) |-> [part |-> Parts[i], run |-> r, whole |-> TRUE]]

\* the line generate_module logs before the _append of a part, if any
LogBefore(p) ==
    CASE p = "header" -> "Writing boilerplate to top of file."
      [] p = "imports" -> "Adding imports"
      [] p = "connection" -> "Adding connection details"
      [] p = "_authenticated_driver" -> "Copying utility functions"
      [] p = "Queries" -> "Adding Queries class"
      [] p = "METADATA" -> "Adding metadata"
      [] p = "Nodes" -> "Generating node interface class"
      [] p = "Edges" -> "Generating edge interface class"
      [] p = "interface" -> "Creating main interface"
      [] OTHER -> ""

\* _log(msg), on the lines logged so far
_log(lines, msg) == IF msg = "" THEN lines ELSE Append(lines, msg)

\* with open(filename, 'a+') as outfile: outfile.write(...)
_append(f, chunk) == Append(f, chunk)

\* (a variant that leaves the old module in place)
RemoveIfExistsKeeps(f) == f

\* if os.path.exists(filename): os.remove(filename)
RemoveIfExists(f) == NoFile

EmptyMetadata ==
    [node_labels |-> <<>>, node_properties |-> [l \in {} |-> <<>>],
     edge_types |-> <<>>, edge_properties |-> [l \in {} |-> <<>>],
     edge_endpoints |-> [l \in {} |-> <<>>]]

NoConnection == [uri |-> None, username |-> None, password |-> None, database |-> None]

\* what the file at the target path defines, by part
NothingEmitted ==
    [connection |-> NoConnection, metadata |-> EmptyMetadata, nodes |-> <<>>, edges |-> <<>>]

\* ------------------------------------------------------- Python conversions
IntLiterals == {"0", "1", "7", "36", "2020", "2021"}

\* the text of the float equal to the int of text s, and back
FloatText(s) == s \o ".0"

IsWholeFloat(v) == \E s \in IntLiterals : FloatText(s) = v

IntTextOfFloat(v) == CHOOSE s \in IntLiterals : FloatText(s) = v

\* bool(x)
Truthy(val) ==
    ~ \/ val.ty = "NoneType"
      \/ val.ty = "str" /\ val.v = ""
      \/ val.ty = "int" /\ val.v = "0"
      \/ val.ty = "float" /\ val.v = "0.0"
      \/ val.ty = "bool" /\ val.v = "False"
      \/ val.ty = "list" /\ val.items = <<>>
      \/ val.ty = "dict" /\ DOMAIN val.d = {}

\* str(x)
TextOf(val) ==
    CASE val.ty = "list" -> IF val.items = <<>> THEN "[]" ELSE "[...]"
      [] val.ty = "dict" -> IF DOMAIN val.d = {} THEN "{}" ELSE "{...}"
      [] OTHER -> val.v

\* (a variant that holds of no value)
IsInstanceOfNothing(val, python_type) == FALSE

\* isinstance(val, python_type)
IsInstance(val, python_type) ==
    \/ python_type = "object"
    \/ val.ty = python_type
    \/ val.ty = "bool" /\ python_type = "int"

\* python_type(val): the converted value, or the conversion raises
Convert(python_type, val) ==
    CASE python_type = "str" -> [ok |-> TRUE, val |-> StrV(TextOf(val))]
      [] python_type = "bool" ->
           [ok |-> TRUE, val |-> BoolV(IF Truthy(val) THEN "True" ELSE "False")]
      [] python_type = "int" ->
           IF val.ty = "str" /\ val.v \in IntLiterals
           THEN [ok |-> TRUE, val |-> IntV(val.v)]
           ELSE IF val.ty = "float" /\ IsWholeFloat(val.v)
           THEN [ok |-> TRUE, val |-> IntV(IntTextOfFloat(val.v))]
           ELSE [ok |-> FALSE, val |-> val]
      [] python_type = "float" ->
           IF val.ty \in {"str", "int"} /\ val.v \in IntLiterals
           THEN [ok |-> TRUE, val |-> FloatV(FloatText(val.v))]
           ELSE IF val.ty = "bool"
           THEN [ok |-> TRUE, val |-> FloatV(IF Truthy(val) THEN "1.0" ELSE "0.0")]
           ELSE [ok |-> FALSE, val |-> val]
      [] python_type = "list" ->
           IF val.ty = "str"
           THEN [ok |-> TRUE, val |-> ListV(IF val.v = "" THEN <<>> ELSE <<StrV("...")>>)]
           ELSE IF val.ty = "dict"
           THEN [ok |-> TRUE, val |-> ListV(IF DOMAIN val.d = {} THEN <<>> ELSE <<StrV("...")>>)]
           ELSE [ok |-> FALSE, val |-> val]
      [] python_type = "dict" ->
           IF ~Truthy(val) /\ val.ty \in {"str", "list"}
           THEN [ok |-> TRUE, val |-> MapV(EmptyDict)]
           ELSE [ok |-> FALSE, val |-> val]
      [] OTHER -> [ok |-> FALSE, val |-> val]

\* ------------------------------------------------------- emitted accessors
NoMsg == [prop |-> None, expected |-> None, actual |-> None]

\* one emitted type-checking block, run on `props`:
\*   if name in props and props[name] is not None:
\*     if not isinstance(props[name], T):
\*       try: props[name] = T(props[name])
\*       except: raise TypeError("Property name must be of type T, got ...")
\* (a variant that drops the property when the conversion fails)
TypeCheckBlockDropping(props, chk) ==
    IF /\ chk.prop \in DOMAIN props
       /\ props[chk.prop] # NoneV
       /\ ~IsInstance(props[chk.prop], chk.python_type)
    THEN LET c == Convert(chk.python_type, props[chk.prop])
         IN IF c.ok
            THEN [props |-> DictSet(props, chk.prop, c.val), raised |-> None,
                  msg |-> NoMsg, failed |-> FALSE]
            ELSE [props |-> [k \in (DOMAIN props) \ {chk.prop} |-> props[k]],
                  raised |-> None, msg |-> NoMsg, failed |-> TRUE]
    ELSE [props |-> props, raised |-> None, msg |-> NoMsg, failed |-> FALSE]

TypeCheckBlock(props, chk) ==
    IF /\ chk.prop \in DOMAIN props
       /\ props[chk.prop] # NoneV
       /\ ~IsInstance(props[chk.prop], chk.python_type)
    THEN LET c == Convert(chk.python_type, props[chk.prop])
         IN IF c.ok
            THEN [props |-> DictSet(props, chk.prop, c.val), raised |-> None,
                  msg |-> NoMsg, failed |-> FALSE]
            ELSE [props |-> props, raised |-> "TypeError",
                  msg |-> [prop |-> chk.prop, expected |-> chk.python_type,
                           actual |-> props[chk.prop].ty],
                  failed |-> TRUE]
    ELSE [props |-> props, raised |-> None, msg |-> NoMsg, failed |-> FALSE]

RECURSIVE RunChecks(_, _)
\* the type-checking blocks of one accessor, in order, up to the first raise;
\* `failed` tells whether a conversion failed on the way
RunChecks(props, checks) ==
    IF checks = <<>>
    THEN [props |-> props, raised |-> None, msg |-> NoMsg, failed |-> FALSE]
    ELSE LET r == TypeCheckBlock(props, Head(checks))
         IN IF r.raised # None THEN r
            ELSE LET rest == RunChecks(r.props, Tail(checks))
                 IN [rest EXCEPT !.failed = r.failed \/ @]

\* search_props = props.copy(); if uuid is not None: search_props['uuid'] = uuid
SearchProps(uuid, props) == IF uuid # NoneV THEN DictSet(props, "uuid", uuid) ELSE props

\* Queries.node(label, **props) and Queries.edge(type, **props): the label or
\* type the pattern is scoped to, the keys of its property map, the parameters
QueryFor(entity, props) == [entity |-> entity, keys |-> DOMAIN props, params |-> props]

\* the parameter of Queries.node and Queries.edge that the accessor passes by
\* keyword next to **search_props
KeywordOf(kind) == IF kind = "node" THEN "label" ELSE "type"

\* a parameter the driver can put on the wire
Packable(val) ==
    val.ty \in {"NoneType", "str", "int", "float", "bool", "list", "dict",
                "datetime.date", "Point"}

\* {k: $k} in a pattern: equality with null is never true
Matches(entityProps, q) ==
    \A k \in q.keys :
        /\ k \in DOMAIN entityProps
        /\ q.params[k] # NoneV
        /\ \/ entityProps[k] = q.params[k]
           \/ /\ entityProps[k].ty = "int"
              /\ q.params[k] = FloatV(FloatText(entityProps[k].v))

\* MATCH (n:label {..}) RETURN n, then .data(): a node becomes the dict of
\* its properties
NodeRows(st, q) ==
    LET ns == SelectSeq(st.nodes, LAMBDA n : q.entity \in n.labels /\ Matches(n.props, q))
    IN [i \in 1..Len(ns) |-> [n |-> [kind |-> "dict", d |-> ns[i].props]]]

\* MATCH (source)-[r:type {..}]->(target) RETURN source, r, target, then
\* .data(): a relationship becomes a (start, type, end) tuple
EdgeRows(st, q) ==
    LET rs == SelectSeq(st.rels, LAMBDA r : r.type = q.entity /\ Matches(r.props, q))
    IN [i \in 1..Len(rs) |->
          [source |-> [kind |-> "dict", d |-> st.nodes[rs[i].src].props],
           r |-> [kind |-> "other"],
           target |-> [kind |-> "dict", d |-> st.nodes[rs[i].dst].props]]]

\* ------------------------------------------------------- record normalisation
Returned(d) == [exc |-> None, val |-> d]

Raised(e) == [exc |-> e, val |-> EmptyDict]

_neo4j_node_to_dict(node, seed) ==
    IF node.kind = "dict"
    THEN IF {"uuid", "labels", "props"} \subseteq DOMAIN node.d
         THEN Returned(node.d)
         ELSE LET props == node.d
                  uuid == DictGet(props, "uuid", NoneV)
                  labels == IF "_labels" \in DOMAIN props THEN props["_labels"]
                            ELSE IF "labels" \in DOMAIN props /\ props["labels"].ty = "list"
                            THEN props["labels"]
                            ELSE DictGet(props, "labels", ListV(<<>>))
              IN Returned([uuid |-> uuid, labels |-> labels, props |-> MapV(props)])
    ELSE IF node.kind = "Node"
    THEN Returned([uuid |-> DictGet(node.props, "uuid", NoneV),
                   labels |-> ListV(ListOfSet(node.labels, AllLabels, seed)),
                   props |-> MapV(node.props)])
    ELSE Returned([uuid |-> NoneV, labels |-> ListV(<<>>), props |-> MapV(EmptyDict)])

_neo4j_relationship_to_dict(rel) ==
    IF rel.kind = "dict"
    THEN IF {"uuid", "type", "props"} \subseteq DOMAIN rel.d
         THEN Returned(rel.d)
         ELSE LET props == rel.d
                  uuid == DictGet(props, "uuid", NoneV)
              IN IF "_labels" \in DOMAIN props
                 THEN Returned([uuid |-> uuid, labels |-> props["_labels"],
                                props |-> MapV(props)])
                 ELSE IF "labels" \in DOMAIN props /\ props["labels"].ty = "list"
                 THEN Returned([uuid |-> uuid, labels |-> props["labels"],
                                props |-> MapV(props)])
                 ELSE Raised("UnboundLocalError")
    ELSE IF rel.kind = "Relationship"
    THEN Returned([uuid |-> DictGet(rel.props, "uuid", NoneV),
                   type |-> NameV(rel.type),
                   props |-> MapV(rel.props)])
    ELSE Raised("NameError")

\* ------------------------------------------------------- accessor calls
NoResult(chk) ==
    [raised |-> chk.raised, msg |-> chk.msg, failed |-> chk.failed,
     sent |-> <<>>, result |-> <<>>]

\* the body of an emitted accessor, after the type checks: the query is built
\* from search_props (a key equal to the keyword parameter of the query
\* builder makes the call of the builder raise) and sent, and every row is
\* normalised
RunQuery(kind, def, search_props, chk, st, target, seed) ==
    LET q == QueryFor(def.entity, search_props)
        sent == <<[kind |-> kind, uri |-> target.uri, entity |-> q.entity,
                   keys |-> q.keys, params |-> q.params]>>
    IN IF KeywordOf(kind) \in DOMAIN search_props
       THEN [raised |-> "TypeError", msg |-> NoMsg, failed |-> chk.failed,
             sent |-> <<>>, result |-> <<>>]
       ELSE IF \E k \in q.keys : ~Packable(q.params[k])
       THEN [raised |-> "ValueError", msg |-> NoMsg, failed |-> chk.failed,
             sent |-> sent, result |-> <<>>]
       ELSE IF kind = "node"
       THEN LET rows == NodeRows(st, q)
            IN [raised |-> None, msg |-> NoMsg, failed |-> chk.failed, sent |-> sent,
                result |-> [i \in 1..Len(rows) |-> _neo4j_node_to_dict(rows[i].n, seed).val]]
       ELSE LET rows == EdgeRows(st, q)
                out == [i \in 1..Len(rows) |->
                          <<_neo4j_node_to_dict(rows[i].source, seed),
                            _neo4j_relationship_to_dict(rows[i].r),
                            _neo4j_node_to_dict(rows[i].target, seed)>>]
            IN IF \E i \in 1..Len(out) : out[i][2].exc # None
               THEN [raised |-> out[CHOOSE i \in 1..Len(out) : out[i][2].exc # None][2].exc,
                     msg |-> NoMsg, failed |-> chk.failed, sent |-> sent, result |-> <<>>]
               ELSE [raised |-> None, msg |-> NoMsg, failed |-> chk.failed, sent |-> sent,
                     result |-> [i \in 1..Len(out) |->
                                   <<out[i][1].val, out[i][2].val, out[i][3].val>>]]

\* def <function_name>(uuid=None, **props) of class Nodes or Edges
Accessor(kind, def, uuid, props, st, target, seed) ==
    LET search_props == SearchProps(uuid, props)
        chk == RunChecks(props, def.checks)
    IN IF chk.raised # None
       THEN NoResult(chk)
       ELSE RunQuery(kind, def, search_props, chk, st, target, seed)

\* Nodes.f(uuid=u, **props) binds uuid to u; nodes.f(**props) binds the
\* instance to the first parameter, which is uuid
BoundUuid(via, uuid) == IF via = "instance" THEN NodesInstance ELSE uuid

\* ------------------------------------------------------- state
VARIABLES
    stores,      \* uri -> content of the store reachable there
    hashSeed,    \* the str hash seed of the running interpreter
    finalizer,   \* what dropping the last reference to a driver does to it
    driver,      \* the driver that generate_module created from its arguments
    profile,     \* the module-level connection profile
    args,        \* the arguments of the current generate_module call
    pc,          \* where generate_module is
    part,        \* index in Parts of the next _append
    runs,        \* number of generate_module calls so far
    metadata,    \* generate_module's local `metadata`
    file,        \* the file at the target path, as a sequence of chunks
    emitted,     \* what the chunks of `file` define
    queryLog,    \* the queries sent during the current call, with their target
    err,         \* the exception the current call raised to its caller
    logged,      \* the lines the current call wrote to modulegenerator.out
    lastDone,    \* metadata and accessors of the last run that completed
    prevDone,    \* and of the completed run before it
    call,        \* the last call of an emitted accessor and its outcome
    norm,        \* the last call of a record-normalisation helper
    ingestor,    \* a Neo4jIngestor of cqlingestor.py
    split,       \* a script and what _split_cql_statements returned for it
    dbm,         \* sunflower's DatabaseManager, its connections file, the web session
    engine       \* a PredictiveRelationshipInferenceEngine and the store it reads

genVars == <<stores, hashSeed, finalizer, driver, profile, args, pc, part, runs,
             metadata, file, emitted, queryLog, err, logged, lastDone, prevDone>>

callVars == <<call, norm>>

otherVars == <<ingestor, split, dbm, engine>>

vars == <<genVars, callVars, otherVars>>

NoOutcome == [raised |-> None, msg |-> NoMsg, failed |-> FALSE, sent |-> <<>>, result |-> <<>>]

NoCall ==
    [kind |-> "none", name |-> <<>>, entity |-> <<>>, def |-> 0, via |-> "class",
     uuid |-> NoneV, props |-> EmptyDict, out |-> NoOutcome, rt |-> FALSE,
     orig |-> EmptyDict]

NoNorm == [helper |-> "none", input |-> [kind |-> "other"], out |-> Returned(EmptyDict)]

NotDone == [run |-> 0, metadata |-> EmptyMetadata, nodes |-> <<>>, edges |-> <<>>]

NoArgs == [uri |-> None, username |-> None, password |-> None]

ArgChoices ==
    {NoArgs,
     [uri |-> RemoteUri, username |-> "alice", password |-> "s3cret"],
     [uri |-> RemoteUri, username |-> None, password |-> None]}

HashSeeds == {0, 1}

\* no code path calls close() on a driver: a driver that is dropped is closed
\* only if the interpreter finalises it at once and the driver's finaliser
\* closes it
Finalizers == {"closes", "leaks"}

\* ------------------------------------------ the repository's other programs
\* Neo4jIngestor.__init__: no driver, an empty dependency graph, no executed
\* file, an empty tracked schema; `completed` and `last` are history: the
\* files whose statements all ran without error in one pass, and the last
\* call with what it sent
NoIngestCall ==
    [op |-> "none", arg |-> None, files |-> {}, raised |-> None, sent |-> <<>>,
     before |-> [executed_files |-> {}, schema |-> {}]]

IngestorInit ==
    [driver |-> "none",
     dependency_graph |-> [nodes |-> {}, edges |-> {}],
     executed_files |-> {},
     schema |-> {},
     completed |-> {},
     calls |-> 0,
     last |-> NoIngestCall]

NoSplit == [cql |-> <<>>, statements |-> <<>>, done |-> FALSE]

\* no connections.json on disk
NoConnectionsFile == [exists |-> FALSE, complete |-> TRUE, entries |-> <<>>]

NoDbCall ==
    [op |-> "none", success |-> TRUE, message |-> None,
     before |-> [connections |-> <<>>, current_connection |-> None,
                 file |-> NoConnectionsFile]]

\* DatabaseManager.__init__ when load_connections finds no file, in an
\* application that could import the module generator and has served no
\* request yet
DbmInit ==
    [connections |-> <<>>,
     current_connection |-> None,
     file |-> NoConnectionsFile,
     module_generator_available |-> TRUE,
     session |-> <<>>,
     calls |-> 0,
     last |-> NoDbCall]

\* `stale` is history: the cached values a call used that had been computed
\* from other nodes than the ones it was given
NoPrediction ==
    [source_label |-> None, target_label |-> None, store |-> "s1", raised |-> None,
     result |-> <<>>, stale |-> {}]

\* PredictiveRelationshipInferenceEngine.__init__: both caches empty;
\* `store` names the content of the store the graph module reads
EngineInit ==
    [_node_feature_cache |-> <<>>,
     _similarity_matrix_cache |-> <<>>,
     store |-> "s1",
     calls |-> 0,
     last |-> NoPrediction]

Init ==
    /\ stores \in {[u \in Uris |-> IF u = DefaultUri THEN s ELSE StoreA] : s \in StoreChoices}
    /\ hashSeed \in HashSeeds
    /\ finalizer \in Finalizers
    /\ driver = "none"
    /\ profile = ProfileInit
    /\ args = NoArgs
    /\ pc = "idle"
    /\ part = 1
    /\ runs = 0
    /\ metadata = EmptyMetadata
    /\ file \in {NoFile, OldFile}
    /\ emitted = NothingEmitted
    /\ queryLog = <<>>
    /\ err = None
    /\ logged = <<>>
    /\ lastDone = NotDone
    /\ prevDone = NotDone
    /\ call = NoCall
    /\ norm = NoNorm
    /\ ingestor = IngestorInit
    /\ split = NoSplit
    /\ dbm = DbmInit
    /\ engine = EngineInit

\* ------------------------------------------------------- connections
\* the defaults of _authenticated_driver(uri=profile['uri'], ...): Python
\* evaluates them once, when the def statement runs, on the profile of then
DriverDefaults ==
    [uri |-> ProfileInit.uri, username |-> ProfileInit.username,
     password |-> ProfileInit.password]

\* _query: `with _authenticated_driver().session() as session`
QueryTarget(prof) == DriverDefaults

\* a driver that nothing refers to any more
Dropped == IF finalizer = "closes" THEN "closed" ELSE "open"

\* the log entry of one query sent through _query, as _query leaves it: the
\* `with` block closed the session, the driver was dropped
Sent(query, prof) ==
    LET t == QueryTarget(prof)
    IN [query |-> query, uri |-> t.uri, username |-> t.username, password |-> t.password,
        session |-> "closed", driver |-> Dropped]

\* ------------------------------------------------------- generate_module
\* the call, up to the driver it creates
GenerateModule ==
    /\ pc \in {"idle", "done", "failed"}
    /\ runs < MaxRuns
    /\ \E a \in ArgChoices :
        /\ args' = a
        /\ profile' = [profile EXCEPT
                         !.uri = IF a.uri # None THEN a.uri ELSE @,
                         !.username = IF a.username # None THEN a.username ELSE @,
                         !.password = IF a.password # None THEN a.password ELSE @]
    /\ driver' = "open"
    /\ runs' = runs + 1
    /\ pc' = "collect"
    /\ part' = 1
    /\ metadata' = EmptyMetadata
    /\ queryLog' = <<>>
    /\ err' = None
    /\ logged' = <<"Collecting metadata from Neo4j database">>
    /\ call' = NoCall
    /\ norm' = NoNorm
    /\ UNCHANGED <<stores, hashSeed, finalizer, file, emitted, lastDone, prevDone>>
    /\ UNCHANGED otherVars

\* (a variant in which the exception is caught and the call returns)
RaiseSwallowed(e) == /\ pc' = "failed"
                     /\ err' = None

\* an exception leaves generate_module: nothing catches it
Raise(e) == /\ pc' = "failed"
            /\ err' = e

\* metadata = _collect_metadata(driver): every query succeeds
CollectMetadata ==
    /\ pc = "collect"
    /\ LET t == QueryTarget(profile)
           qs == CollectQueries(stores[t.uri])
       IN /\ queryLog' = [i \in 1..Len(qs) |-> Sent(qs[i], profile)]
          /\ metadata' = _collect_metadata(stores[t.uri], hashSeed)
    /\ pc' = "prepare"
    /\ logged' = Append(logged, "Generating module")
    /\ UNCHANGED <<stores, hashSeed, finalizer, driver, profile, args, part, runs, file, emitted, err, lastDone, prevDone>>
    /\ UNCHANGED callVars
    /\ UNCHANGED otherVars

\* the k-th introspection query fails
CollectFails ==
    /\ pc = "collect"
    /\ LET t == QueryTarget(profile)
           qs == CollectQueries(stores[t.uri])
       IN \E k \in 1..Len(qs) :
              queryLog' = [i \in 1..k |-> Sent(qs[i], profile)]
    /\ Raise("QueryError")
    /\ UNCHANGED <<stores, hashSeed, finalizer, driver, profile, args, part, runs, metadata, file,
                   emitted, logged, lastDone, prevDone>>
    /\ UNCHANGED callVars
    /\ UNCHANGED otherVars

\* os.makedirs, then the old module is deleted
PrepareFile ==
    /\ pc = "prepare"
    /\ file' = RemoveIfExists(file)
    /\ emitted' = NothingEmitted
    /\ pc' = "emit"
    /\ part' = 1
    /\ logged' = IF file # NoFile THEN Append(logged, "Old module found; deleting.")
                  ELSE logged
    /\ UNCHANGED <<stores, hashSeed, finalizer, driver, profile, args, runs, metadata, queryLog, err, lastDone, prevDone>>
    /\ UNCHANGED callVars
    /\ UNCHANGED otherVars

\* os.makedirs, _log or os.remove fails
PrepareFails ==
    /\ pc = "prepare"
    /\ Raise("OSError")
    /\ UNCHANGED <<stores, hashSeed, finalizer, driver, profile, args, part, runs, metadata, file,
                   emitted, queryLog, logged, lastDone, prevDone>>
    /\ UNCHANGED callVars
    /\ UNCHANGED otherVars

\* what the part defines, once appended
Define(em, p, prof, md) ==
    CASE p = "connection" ->
           [em EXCEPT !.connection = [uri |-> prof.uri, username |-> prof.username,
                                      password |-> prof.password,
                                      database |-> prof.database]]
      [] p = "METADATA" -> [em EXCEPT !.metadata = md]
      [] p = "Nodes" -> [em EXCEPT !.nodes = _generate_node_interface_functions(md)]
      [] p = "Edges" -> [em EXCEPT !.edges = _generate_edge_interface_functions(md)]
      [] OTHER -> em

\* one _append of generate_module succeeds; the first one includes the
\* _server_timestamp() query of the header
EmitPart ==
    /\ pc = "emit"
    /\ file' = _append(file, [part |-> Parts[part], run |-> runs, whole |-> TRUE])
    /\ emitted' = Define(emitted, Parts[part], profile, metadata)
    /\ queryLog' = IF part = 1 THEN Append(queryLog, Sent("server_timestamp", profile))
                   ELSE queryLog
    /\ IF part = Len(Parts)
       THEN /\ pc' = "done"
            /\ part' = part
            /\ logged' = _log(_log(logged, LogBefore(Parts[part])), "successfully generated.")
            /\ lastDone' = [run |-> runs, metadata |-> emitted'.metadata,
                             nodes |-> emitted'.nodes, edges |-> emitted'.edges]
            /\ prevDone' = lastDone
            /\ driver' = Dropped
       ELSE /\ pc' = "emit"
            /\ part' = part + 1
            /\ logged' = _log(logged, LogBefore(Parts[part]))
            /\ UNCHANGED <<lastDone, prevDone, driver>>
    /\ UNCHANGED <<stores, hashSeed, finalizer, profile, args, runs, metadata, err>>
    /\ UNCHANGED callVars
    /\ UNCHANGED otherVars

\* the _server_timestamp() query in the header's f-string fails: the header
\* is not written
TimestampFails ==
    /\ pc = "emit"
    /\ part = 1
    /\ queryLog' = Append(queryLog, Sent("server_timestamp", profile))
    /\ logged' = _log(logged, LogBefore(Parts[part]))
    /\ Raise("QueryError")
    /\ UNCHANGED <<stores, hashSeed, finalizer, driver, profile, args, part, runs, metadata, file,
                   emitted, lastDone, prevDone>>
    /\ UNCHANGED callVars
    /\ UNCHANGED otherVars

\* a write fails: the _log before the _append (nothing reaches the file),
\* the open of the _append (nothing reaches it either) or its write (a
\* truncated chunk reaches it)
WriteFails ==
    /\ pc = "emit"
    /\ \E cause \in {"log", "open", "write"} :
         /\ file' = IF cause = "write"
                    THEN _append(file, [part |-> Parts[part], run |-> runs, whole |-> FALSE])
                    ELSE file
         /\ logged' = IF cause = "log" THEN logged ELSE _log(logged, LogBefore(Parts[part]))
         /\ queryLog' = IF part = 1 /\ cause # "log"
                        THEN Append(queryLog, Sent("server_timestamp", profile))
                        ELSE queryLog
    /\ Raise("IOError")
    /\ UNCHANGED <<stores, hashSeed, finalizer, driver, profile, args, part, runs, metadata,
                   emitted, lastDone, prevDone>>
    /\ UNCHANGED callVars
    /\ UNCHANGED otherVars

\* a new interpreter runs the generator: the module body rebuilds `profile`,
\* the str hash seed is drawn again, and nothing of an earlier call is left
\* but the files
NewProcess ==
    /\ pc \in {"idle", "done", "failed"}
    /\ profile' = ProfileInit
    /\ hashSeed' \in HashSeeds
    /\ finalizer' \in Finalizers
    /\ driver' = "none"
    /\ pc' = "idle"
    /\ args' = NoArgs
    /\ part' = 1
    /\ metadata' = EmptyMetadata
    /\ queryLog' = <<>>
    /\ err' = None
    /\ logged' = <<>>
    /\ call' = NoCall
    /\ norm' = NoNorm
    /\ UNCHANGED <<stores, runs, file, emitted, lastDone, prevDone>>
    /\ UNCHANGED otherVars

\* ------------------------------------------------------- using the module
\* The accessors and helpers keep no state between calls: the model follows
\* one call per emitted module, and the round-trip lookups of what it returned.
\* A call runs the body of the emitted def where the names of the module text
\* are bound, `profile` (see NameErrors) as the generator's module body binds it.
Fresh == pc = "done" /\ call = NoCall /\ norm = NoNorm

UuidArgs == {StrV("u1"), StrV("abc"), IntV("7")}

FilterChoices ==
    {EmptyDict,
     [age |-> StrV("thirty-six")],
     [age |-> StrV("36")],
     [age |-> IntV("36")],
     [age |-> NoneV],
     [name |-> StrV("Ada")],
     [colour |-> StrV("red")],
     [since |-> StrV("long")],
     [since |-> IntV("2020")],
     [name |-> StrV("Ada"), age |-> StrV("thirty-six")],
     [tags |-> StrV("scifi")],
     [released |-> StrV("1979-05-25")],
     [site |-> StrV("here")],
     [label |-> StrV("x")],
     [type |-> StrV("friend")]}

CallInputs ==
    {[uuid |-> NoneV, props |-> f] : f \in FilterChoices}
    \cup {[uuid |-> u, props |-> EmptyDict] : u \in UuidArgs}

\* the caller names the accessor of the i-th label or type, as
\* get_database_info does: getattr(nodes, label.lower()...)
CallOf(kind, defs, i, via, in) ==
    LET name == defs[i].name
        d == LastIndex(defs, name)
        target == QueryTarget(profile)
    IN [kind |-> kind, name |-> name, entity |-> defs[i].entity, def |-> d, via |-> via,
        uuid |-> in.uuid, props |-> in.props,
        out |-> Accessor(kind, defs[d], BoundUuid(via, in.uuid), in.props,
                         stores[target.uri], target, hashSeed),
        rt |-> FALSE, orig |-> EmptyDict]

CallNodeAccessor ==
    /\ Fresh
    /\ \E i \in 1..Len(emitted.nodes), via \in {"class", "instance"}, in \in CallInputs :
         /\ via = "instance" => in.uuid = NoneV
         /\ call' = CallOf("node", emitted.nodes, i, via, in)
    /\ norm' = NoNorm
    /\ UNCHANGED genVars
    /\ UNCHANGED otherVars

CallEdgeAccessor ==
    /\ Fresh
    /\ \E i \in 1..Len(emitted.edges), via \in {"class", "instance"}, in \in CallInputs :
         /\ via = "instance" => in.uuid = NoneV
         /\ call' = CallOf("edge", emitted.edges, i, via, in)
    /\ norm' = NoNorm
    /\ UNCHANGED genVars
    /\ UNCHANGED otherVars

\* a record the last call returned is looked up again by its identifier
RoundTrip ==
    /\ pc = "done"
    /\ call.kind = "node"
    /\ ~call.rt
    /\ call.out.raised = None
    /\ \E i \in 1..Len(call.out.result) :
         LET r == call.out.result[i]
             target == QueryTarget(profile)
         IN call' = [call EXCEPT
                       !.via = "class", !.uuid = r["uuid"], !.props = EmptyDict,
                       !.out = Accessor("node", emitted.nodes[call.def], r["uuid"],
                                        EmptyDict, stores[target.uri], target, hashSeed),
                       !.rt = TRUE, !.orig = r]
    /\ norm' = NoNorm
    /\ UNCHANGED genVars
    /\ UNCHANGED otherVars

NodeObjects ==
    {[kind |-> "Node", labels |-> {Person},
      props |-> [name |-> StrV("Ada"), age |-> IntV("36")]],
     [kind |-> "Node", labels |-> {Movie, Category}, props |-> [uuid |-> StrV("u1")]]}

RelationshipObjects ==
    {[kind |-> "Relationship", type |-> KNOWS, props |-> [since |-> IntV("2020")]],
     [kind |-> "Relationship", type |-> IN_CAT, props |-> EmptyDict]}

DictInputs ==
    {[kind |-> "dict", d |-> d] : d \in
        {EmptyDict,
         [name |-> StrV("Ada"), age |-> IntV("36")],
         [uuid |-> StrV("u1"), name |-> StrV("Alien")],
         [uuid |-> StrV("u1"), labels |-> ListV(<<Movie>>), props |-> MapV(EmptyDict)],
         [uuid |-> StrV("u1"), labels |-> ListV(<<Movie>>), props |-> MapV(EmptyDict),
          name |-> StrV("Alien")],
         [uuid |-> StrV("r1"), type |-> NameV(KNOWS), props |-> MapV(EmptyDict)],
         [_labels |-> ListV(<<Person>>), name |-> StrV("Ada")],
         [labels |-> ListV(<<Person>>), name |-> StrV("Ada")],
         [labels |-> StrV("tags"), name |-> StrV("Ada")]}}

\* a tuple, None, a number: anything without items()
OtherInputs == {[kind |-> "other"]}

HelperInputs == NodeObjects \cup RelationshipObjects \cup DictInputs \cup OtherInputs

NormaliseNode ==
    /\ Fresh
    /\ \E input \in HelperInputs :
         norm' = [helper |-> "node", input |-> input,
                  out |-> _neo4j_node_to_dict(input, hashSeed)]
    /\ call' = NoCall
    /\ UNCHANGED genVars
    /\ UNCHANGED otherVars

NormaliseRelationship ==
    /\ Fresh
    /\ \E input \in HelperInputs :
         norm' = [helper |-> "rel", input |-> input,
                  out |-> _neo4j_relationship_to_dict(input)]
    /\ call' = NoCall
    /\ UNCHANGED genVars
    /\ UNCHANGED otherVars

Next ==
    \/ CallNodeAccessor
    \/ CallEdgeAccessor
    \/ RoundTrip
    \/ NormaliseNode
    \/ NormaliseRelationship
    \/ GenerateModule
    \/ CollectMetadata
    \/ CollectFails
    \/ PrepareFile
    \/ PrepareFails
    \/ EmitPart
    \/ TimestampFails
    \/ WriteFails
    \/ NewProcess

Spec == Init /\ [][Next]_vars

\* ======================================================= claims
\* C1: for every label that label introspection returned, the emitted module
\* holds exactly one accessor for it: the class Nodes has one def scoped to
\* the label, the name derived from the label resolves to that def, and no
\* other label's name resolves to it.
C1_OneAccessorPerLabel ==
    pc = "done" =>
        LET labels == emitted.metadata.node_labels
        IN \A i \in 1..Len(labels) :
              /\ Cardinality({j \in 1..Len(emitted.nodes) :
                                 emitted.nodes[j].entity = labels[i]}) = 1
              /\ HasAttr(emitted.nodes, FunctionName(labels[i]))
              /\ GetAttr(emitted.nodes, FunctionName(labels[i])).entity = labels[i]
              /\ \A j \in 1..Len(labels) :
                    labels[j] # labels[i] =>
                        FunctionName(labels[j]) # FunctionName(labels[i])

\* the value a class-level call supplies for a property of the property map
SuppliedFor(c, prop) ==
    IF prop = "uuid" THEN (IF c.via = "class" THEN c.uuid ELSE NoneV)
    ELSE DictGet(c.props, prop, NoneV)

\* the type-checking blocks whose property got a value of an incompatible
\* type that cannot be converted to the mapped type
Offending(c, checks) ==
    {j \in 1..Len(checks) :
        LET val == SuppliedFor(c, checks[j].prop)
        IN /\ val # NoneV
           /\ ~IsInstance(val, checks[j].python_type)
           /\ ~Convert(checks[j].python_type, val).ok}

\* C2: when a call of a label's accessor supplies, for a property of that
\* label's property map, a value of an incompatible type that cannot be
\* coerced to the mapped type, the call raises the type-mismatch error, and
\* the error names such a property, its expected type and the actual type
\* of the value supplied.
C2_MismatchRaises ==
    call.kind = "node" /\ ~call.rt =>
        LET checks == emitted.nodes[call.def].checks
            bad == Offending(call, checks)
        IN bad # {} =>
             /\ call.out.raised = "TypeError"
             /\ \E j \in bad :
                   /\ call.out.msg.prop = checks[j].prop
                   /\ call.out.msg.expected = checks[j].python_type
                   /\ call.out.msg.actual = SuppliedFor(call, checks[j].prop).ty

\* C3: in an emitted accessor, of a label or of a relationship type, a failed
\* type coercion raises at once: the call ends with the type-mismatch error
\* and sends no query, so the property is neither dropped nor defaulted.
C3_CoercionFailureRaises ==
    call.kind # "none" /\ call.out.failed =>
        /\ call.out.raised = "TypeError"
        /\ call.out.sent = <<>>
        /\ call.out.msg.prop \in DOMAIN call.props

C3_Witness ==
    /\ call.kind = "edge"
    /\ call.out.failed
    /\ call.out.raised = "TypeError"
    /\ call.out.msg.prop = "since"

\* what a store answers to the label-scoped match with no filters
AllOfLabel(st, label, seed) ==
    LET ns == SelectSeq(st.nodes, LAMBDA n : label \in n.labels)
    IN [i \in 1..Len(ns) |->
          _neo4j_node_to_dict([kind |-> "dict", d |-> ns[i].props], seed).val]

\* C4: a call of a label's accessor with no filters, through the class Nodes
\* or on the instance `nodes`, sends the match query scoped to the label
\* with an empty filter set and returns all entities having the label.
C4_NoFiltersReturnsAll ==
    /\ call.kind = "node"
    /\ ~call.rt
    /\ call.uuid = NoneV
    /\ call.props = EmptyDict
    => LET label == emitted.nodes[call.def].entity
           target == QueryTarget(profile)
       IN /\ call.out.raised = None
          /\ Len(call.out.sent) = 1
          /\ call.out.sent[1].entity = label
          /\ call.out.sent[1].keys = {}
          /\ call.out.result = AllOfLabel(stores[target.uri], label, hashSeed)

\* C5: a record that an accessor returned, looked up again through the same
\* accessor with its identifier as the identity key, comes back alone and
\* equal to the original.
C5_RoundTrip ==
    call.rt =>
        /\ call.out.raised = None
        /\ call.out.result = <<call.orig>>

\* C6: two completed runs against the unchanged store emit the same schema
\* literal and the same accessors.
C6_Idempotent ==
    prevDone.run # 0 =>
        /\ lastDone.metadata = prevDone.metadata
        /\ lastDone.nodes = prevDone.nodes
        /\ lastDone.edges = prevDone.edges

\* a complete module: the one found before the first run, or the text of a run
Complete(f) == f = OldFile \/ \E r \in 1..runs : f = ModuleText(r)

Partial(f) == f # NoFile /\ ~Complete(f)

C8_FileIsModuleText ==
    pc = "done" => file = ModuleText(runs)

C8_Witness ==
    /\ pc = "done"
    /\ "Old module found; deleting." \in Range(logged)
    /\ file = ModuleText(runs)

\* C9: every introspection query of a run goes to the store, and with the
\* credentials, that the arguments of generate_module name, and that is the
\* store the connection block of the emitted module names.
C9_QueriesUseArguments ==
    \A i \in 1..Len(queryLog) :
        /\ args.uri # None => queryLog[i].uri = args.uri
        /\ args.username # None => queryLog[i].username = args.username
        /\ args.password # None => queryLog[i].password = args.password
        /\ pc = "done" => queryLog[i].uri = emitted.connection.uri

\* C10: whatever it is given, a normalisation helper returns a record of
\* exactly three fields: uuid, labels, props for a node and uuid, type,
\* props for a relationship.
C10_UniformRecord ==
    /\ norm.helper = "node" =>
          norm.out.exc = None /\ DOMAIN norm.out.val = {"uuid", "labels", "props"}
    /\ norm.helper = "rel" =>
          norm.out.exc = None /\ DOMAIN norm.out.val = {"uuid", "type", "props"}

\* the tags a property map records for a key, and the tags the rows of the
\* introspection query carry for it
RecordedTags(od, key) == {od[i].val : i \in {j \in 1..Len(od) : od[j].key = key}}

ObservedTags(rows, key) == {rows[i].type : i \in {j \in 1..Len(rows) : rows[j].key = key}}

\* C11: in the schema snapshot, the type tag recorded for a property of a
\* label or of a relationship type is the union of the tags observed for it:
\* every tag that a row of the introspection query carries for the property
\* is recorded, and nothing else is.
C11_TagIsUnion ==
    pc \in {"prepare", "emit", "done"} =>
        LET st == stores[QueryTarget(profile).uri]
        IN /\ \A l \in Range(metadata.node_labels) : \A k \in Range(PropOrder) :
                 RecordedTags(metadata.node_properties[l], k)
                     = ObservedTags(NodePropertiesRows(st, l), k)
           /\ \A t \in Range(metadata.edge_types) : \A k \in Range(PropOrder) :
                 RecordedTags(metadata.edge_properties[t], k)
                     = ObservedTags(EdgePropertiesRows(st, t), k)

\* the (start label, end label) combinations that the sampled relationships
\* of a type connect, and those that the recorded endpoint lists stand for
ObservedCombinations(st, type) ==
    LET rows == EdgeEndpointsRows(st, type)
    IN UNION {Range(rows[i].startLabels) \X Range(rows[i].endLabels) : i \in 1..Len(rows)}

RecordedCombinations(endpoints) == Range(endpoints[1]) \X Range(endpoints[2])

\* C12: for each relationship type, the endpoint information of the snapshot
\* stands for exactly the (start label, end label) combinations observed:
\* every observed combination, and no combination that no sampled
\* relationship of the type connects.
C12_EndpointsAreObserved ==
    pc \in {"prepare", "emit", "done"} =>
        LET st == stores[QueryTarget(profile).uri]
        IN \A t \in Range(metadata.edge_types) :
              RecordedCombinations(metadata.edge_endpoints[t]) = ObservedCombinations(st, t)

\* the definition a call ran, and the property map it was generated from
DefOf(c) == IF c.kind = "node" THEN emitted.nodes[c.def] ELSE emitted.edges[c.def]

PropertyMapOf(c) ==
    IF c.kind = "node" THEN emitted.metadata.node_properties[DefOf(c).entity]
    ELSE emitted.metadata.edge_properties[DefOf(c).entity]

CompositeTags == {"String[]", "LIST", "MAP", "DATE", "DATETIME"}

\* C13: a property whose tag is composite, array or temporal is mapped to the
\* opaque fallback type, and a call that supplies any value for it is not
\* refused by the validation step: no type-mismatch error is raised and the
\* value reaches the query as it was supplied.
C13_CompositeTagsAccepted ==
    /\ pc = "done" =>
          \A l \in Range(emitted.metadata.node_labels) :
             LET od == emitted.metadata.node_properties[l]
             IN \A i \in 1..Len(od) :
                   od[i].val \in CompositeTags => TypeMapping(od[i].val) = "object"
    /\ call.kind # "none" /\ ~call.rt =>
          \A k \in DOMAIN call.props :
             /\ RecordedTags(PropertyMapOf(call), k) \cap CompositeTags # {}
             /\ call.props[k] # NoneV
             => /\ call.out.msg.prop # k
                /\ call.out.sent # <<>>
                /\ call.out.sent[1].params[k] = call.props[k]

PythonTypeNames ==
    {"str", "int", "float", "bool", "datetime.date", "datetime.datetime",
     "list", "dict", "object"}

RecognisedTags ==
    {"STRING", "INTEGER", "FLOAT", "BOOLEAN", "DATE", "DATETIME", "LIST", "MAP"}

\* the validation blocks of a class are one per property of the property map,
\* each with a type name, the fallback `object` for an unrecognised tag
TotalOn(defs, maps) ==
    \A i \in 1..Len(defs) :
       LET od == maps[defs[i].entity]
       IN /\ Len(defs[i].checks) = Len(od)
          /\ \A j \in 1..Len(od) :
                /\ defs[i].checks[j].prop = od[j].key
                /\ defs[i].checks[j].python_type \in PythonTypeNames
                /\ od[j].val \notin RecognisedTags
                      => defs[i].checks[j].python_type = "object"

\* C14: the type mapping is total: the emitted module has a validation block
\* for every property of every property map, whatever its tag, each with a
\* target type name, which is the fallback for an unrecognised tag.
C14_MappingTotal ==
    pc = "done" =>
        /\ TotalOn(emitted.nodes, emitted.metadata.node_properties)
        /\ TotalOn(emitted.edges, emitted.metadata.edge_properties)

C14_Witness ==
    /\ pc = "done"
    /\ \E i \in 1..Len(emitted.nodes) : \E j \in 1..Len(emitted.nodes[i].checks) :
          /\ emitted.nodes[i].checks[j].python_type = "object"
          /\ RecordedTags(emitted.metadata.node_properties[emitted.nodes[i].entity],
                          emitted.nodes[i].checks[j].prop) = {"POINT"}

\* C15: a filter whose key is not in the property map of the accessor's
\* label or type is not type-checked and not rejected: unless the check of
\* another filter raised, the query is sent and carries the key as a
\* parameter with the value the caller supplied.
C15_UnknownFilterPassedThrough ==
    call.kind # "none" /\ ~call.rt =>
        \A k \in DOMAIN call.props :
           RecordedTags(PropertyMapOf(call), k) = {} =>
              /\ call.out.msg.prop # k
              /\ call.out.msg = NoMsg =>
                    /\ call.out.sent # <<>>
                    /\ k \in call.out.sent[1].keys
                    /\ call.out.sent[1].params[k] = call.props[k]

\* C16: the query an accessor sends is scoped to the accessor's own label or
\* type and its parameters are exactly the supplied filter keys, the
\* identity key counting as `uuid` when it is given; with no filters the
\* pattern has no property map.
C16_OneParameterPerKey ==
    call.kind # "none" /\ ~call.rt /\ call.out.sent # <<>> =>
        LET q == call.out.sent[1]
            supplied == (DOMAIN call.props)
                           \cup (IF call.uuid # NoneV THEN {"uuid"} ELSE {})
        IN /\ q.entity = DefOf(call).entity
           /\ q.keys = supplied
           /\ DOMAIN q.params = supplied

\* C17: the emitted module is standalone: every name that its import
\* evaluates is defined by an earlier part of the module text itself.
C17_Standalone ==
    pc = "done" => NameErrors(file) = {}

\* the place of a part in a module text
Pos(f, p) == CHOOSE i \in 1..Len(f) : f[i].part = p

FixedOrder ==
    <<"header", "connection", "_query", "_neo4j_node_to_dict", "METADATA",
      "Nodes", "Edges">>

C19_ConnectionsReleased ==
    /\ \A i \in 1..Len(queryLog) :
          queryLog[i].session = "closed" /\ queryLog[i].driver = "closed"
    /\ pc = "done" => driver = "closed"

\* C20: a relationship type of the store has one accessor, and a call of it
\* with no filters returns one 3-tuple (source node record, relationship
\* record, target node record) per relationship of the type.
C20_EdgeAccessorReturnsTriples ==
    /\ call.kind = "edge"
    /\ call.via = "class"
    /\ call.uuid = NoneV
    /\ call.props = EmptyDict
    => LET type == call.entity
           st == stores[QueryTarget(profile).uri]
           matched == SelectSeq(st.rels, LAMBDA r : r.type = type)
       IN /\ Cardinality({i \in 1..Len(emitted.edges) :
                              emitted.edges[i].entity = type}) = 1
          /\ DefOf(call).entity = type
          /\ call.out.raised = None
          /\ Len(call.out.result) = Len(matched)
          /\ \A i \in 1..Len(call.out.result) :
                /\ Len(call.out.result[i]) = 3
                /\ DOMAIN call.out.result[i][1] = {"uuid", "labels", "props"}
                /\ DOMAIN call.out.result[i][2] = {"uuid", "type", "props"}
                /\ DOMAIN call.out.result[i][3] = {"uuid", "labels", "props"}

C22_ScenarioA ==
    /\ call.kind = "node"
    /\ ~call.rt
    /\ call.via = "class"
    /\ call.uuid = NoneV
    /\ call.props = EmptyDict
    /\ call.entity = Person
    /\ stores[QueryTarget(profile).uri] = StoreA
    => /\ call.out.raised = None
       /\ Len(call.out.result) = 1
       /\ call.out.result[1]["labels"] = ListV(<<Person>>)
       /\ call.out.result[1]["props"] = MapV([name |-> StrV("Ada"), age |-> IntV("36")])

\* the blocks of a call's def whose property got a value of the very type
\* that the property's tag names
CorrectlyTyped(c) ==
    {j \in 1..Len(DefOf(c).checks) :
        LET k == DefOf(c).checks[j].prop
            val == SuppliedFor(c, k)
        IN val # NoneV /\ RecordedTags(PropertyMapOf(c), k) = {ApocType(val)}}

\* the blocks of a call's def whose property got any value
Supplied(c) ==
    {j \in 1..Len(DefOf(c).checks) : SuppliedFor(c, DefOf(c).checks[j].prop) # NoneV}

\* C23: a call of a label's accessor that supplies, for a property of the
\* property map, a value of the type its tag names never raises the
\* type-mismatch error for that property; if every value it supplies is so
\* typed, it raises no type-mismatch error at all.
C23_CorrectlyTypedAccepted ==
    call.kind = "node" /\ ~call.rt =>
        /\ \A j \in CorrectlyTyped(call) :
              call.out.msg.prop # DefOf(call).checks[j].prop
        /\ Supplied(call) \subseteq CorrectlyTyped(call) => call.out.msg = NoMsg

C23_Witness ==
    /\ call.kind = "node"
    /\ ~call.rt
    /\ call.via = "class"
    /\ call.props = [age |-> IntV("36")]
    /\ CorrectlyTyped(call) # {}
    /\ call.out.raised = None
    /\ Len(call.out.result) = 1

\* C24: when a value supplied for a known property is not of the mapped type
\* and its conversion succeeds, the query carries the converted value for
\* that property.
C24_CoercedValueSent ==
    call.kind # "none" /\ ~call.rt /\ call.out.raised = None =>
        \A j \in 1..Len(DefOf(call).checks) :
           LET chk == DefOf(call).checks[j]
               val == DictGet(call.props, chk.prop, NoneV)
           IN /\ val # NoneV
              /\ ~IsInstance(val, chk.python_type)
              /\ Convert(chk.python_type, val).ok
              => call.out.sent[1].params[chk.prop] = Convert(chk.python_type, val).val

\* =================================================== cqlingestor.py
\* bound on the execute_cql_file and execute_all calls on one ingestor
MaxCalls == 3

\* every other variable keeps the value it has before any program runs
GeneratorIdle ==
    /\ stores = [u \in Uris |-> StoreA]
    /\ hashSeed = 0
    /\ finalizer = "closes"
    /\ driver = "none"
    /\ profile = ProfileInit
    /\ args = NoArgs
    /\ pc = "idle"
    /\ part = 1
    /\ runs = 0
    /\ metadata = EmptyMetadata
    /\ file = NoFile
    /\ emitted = NothingEmitted
    /\ queryLog = <<>>
    /\ err = None
    /\ logged = <<>>
    /\ lastDone = NotDone
    /\ prevDone = NotDone
    /\ call = NoCall
    /\ norm = NoNorm

\* the text of a script is a sequence of characters; in the .cql files below
\* a clause is written as one element, which the splitter treats as one
\* regular character
Whitespace == {" "}

RECURSIVE LStrip(_)
LStrip(text) ==
    IF text # <<>> /\ Head(text) \in Whitespace THEN LStrip(Tail(text)) ELSE text

RECURSIVE RStrip(_)
RStrip(text) ==
    IF text # <<>> /\ text[Len(text)] \in Whitespace
    THEN RStrip(SubSeq(text, 1, Len(text) - 1))
    ELSE text

\* str.strip()
Strip(text) == RStrip(LStrip(text))

SplitStart ==
    [statements |-> <<>>, current_statement |-> <<>>, in_string |-> FALSE,
     string_char |-> None, escaped |-> FALSE]

\* one pass of the loop `for char in cql`
SplitChar(s, char) ==
    IF s.escaped
    THEN [s EXCEPT !.current_statement = Append(@, char), !.escaped = FALSE]
    ELSE IF char = "\\"
    THEN [s EXCEPT !.current_statement = Append(@, char), !.escaped = TRUE]
    ELSE IF s.in_string
    THEN [s EXCEPT !.current_statement = Append(@, char),
                   !.in_string = (char # s.string_char),
                   !.string_char = IF char = s.string_char THEN None ELSE @]
    ELSE IF char \in {"\"", "'"}
    THEN [s EXCEPT !.current_statement = Append(@, char),
                   !.in_string = TRUE,
                   !.string_char = char]
    ELSE IF char = ";" /\ Strip(s.current_statement) # <<>>
    THEN [s EXCEPT !.statements = Append(@, Strip(s.current_statement)),
                   !.current_statement = <<>>]
    ELSE [s EXCEPT !.current_statement = Append(@, char)]

RECURSIVE SplitLoop(_, _)
SplitLoop(s, cql) ==
    IF cql = <<>> THEN s ELSE SplitLoop(SplitChar(s, Head(cql)), Tail(cql))

_split_cql_statements(cql) ==
    LET s == SplitLoop(SplitStart, cql)
    IN IF Strip(s.current_statement) # <<>>
       THEN Append(s.statements, Strip(s.current_statement))
       ELSE s.statements

\* the label the regular expressions of analyze_file_content capture in a
\* clause: CREATE\s+\(.*?:([\w`]+) and MERGE\s+\(.*?:([\w`]+) for labels
\* created, MATCH\s+\(.*?:([\w`]+) for labels matched
CreatedLabel ==
    ("CREATE (x:X)" :> "X") @@ ("MERGE (x:X)" :> "X") @@ ("CREATE (y:Y)" :> "Y")
    @@ ("CREATE (p:P)" :> "P") @@ ("CREATE (q:Q)" :> "Q")

MatchedLabel ==
    ("MATCH (x:X)" :> "X") @@ ("MATCH (y:Y)" :> "Y") @@ ("MATCH (p:P)" :> "P")
    @@ ("MATCH (q:Q)" :> "Q")

\* the .cql files on disk, by path; timestamp is what the `// Created:`
\* comment of the file gives, <<>> for a file without one (no two files
\* carry the same timestamp)
CqlFiles ==
    ("data/main/core/a.cql" :>
        [content |-> <<"CREATE (x:X)", ";", " ", "MERGE (x:X)", ";">>,
         timestamp |-> <<20240101>>])
    @@ ("data/main/core/b.cql" :>
        [content |-> <<"MATCH (x:X)", " ", "CREATE (y:Y)", ";">>,
         timestamp |-> <<>>])
    @@ ("data/main/core/e.cql" :>
        [content |-> <<"MATCH (y:Y)">>,
         timestamp |-> <<>>])
    @@ ("data/main/c.cql" :>
        [content |-> <<"MATCH (y:Y)", " ", "CREATE (x:X)", ";", " ">>,
         timestamp |-> <<20240201>>])
    @@ ("data/loop/p.cql" :>
        [content |-> <<"MATCH (q:Q)", " ", "CREATE (p:P)", ";">>,
         timestamp |-> <<>>])
    @@ ("data/loop/q.cql" :>
        [content |-> <<"MATCH (p:P)", " ", "CREATE (q:Q)", ";">>,
         timestamp |-> <<>>])

CqlPaths == DOMAIN CqlFiles

\* the directories, with the .cql files os.walk finds under each
Directories ==
    ("data/main/core" :>
        {"data/main/core/a.cql", "data/main/core/b.cql", "data/main/core/e.cql"})
    @@ ("data/main" :>
        {"data/main/core/a.cql", "data/main/core/b.cql", "data/main/core/e.cql",
         "data/main/c.cql"})
    @@ ("data/loop" :> {"data/loop/p.cql", "data/loop/q.cql"})
    @@ ("data" :> CqlPaths)

scan_directory(directory) == Directories[directory]

analyze_file_content(filepath) ==
    LET content == CqlFiles[filepath].content
        created_nodes == {CreatedLabel[content[i]] :
                            i \in {j \in DOMAIN content : content[j] \in DOMAIN CreatedLabel}}
        matched_nodes == {MatchedLabel[content[i]] :
                            i \in {j \in DOMAIN content : content[j] \in DOMAIN MatchedLabel}}
    IN [filepath |-> filepath,
        timestamp |-> CqlFiles[filepath].timestamp,
        created_nodes |-> created_nodes,
        required_nodes |-> matched_nodes \ created_nodes]

\* the files of `files` other than `file` that create `required_node`
Providers(files, this_file, required_node) ==
    {other_file \in files :
        /\ required_node \in analyze_file_content(other_file).created_nodes
        /\ other_file # this_file}

\* providers.sort(key=timestamp); providers[0]
EarliestProvider(providers) ==
    CHOOSE p \in providers :
        \A o \in providers :
            analyze_file_content(p).timestamp[1] <= analyze_file_content(o).timestamp[1]

\* the edges the second pass of build_dependency_graph adds for `files`
DependencyEdges(files) ==
    UNION {UNION {LET providers == Providers(files, this_file, required_node)
                  IN IF providers = {} THEN {}
                     ELSE IF \A p \in providers : analyze_file_content(p).timestamp # <<>>
                     THEN {<<EarliestProvider(providers), this_file>>}
                     ELSE {<<provider, this_file>> : provider \in providers}
                  : required_node \in analyze_file_content(this_file).required_nodes}
           : this_file \in files}

\* the graph is a field of the ingestor and is never cleared: the nodes and
\* edges of one call stay for the next
build_dependency_graph(graph, files) ==
    [nodes |-> graph.nodes \cup files,
     edges |-> graph.edges \cup DependencyEdges(files)]

RECURSIVE ReachableFrom(_, _, _)
ReachableFrom(from, edges, k) ==
    IF k = 0 THEN from
    ELSE ReachableFrom(from \cup {e[2] : e \in {d \in edges : d[1] \in from}}, edges, k - 1)

\* nx.is_directed_acyclic_graph
is_directed_acyclic_graph(graph) ==
    \A n \in graph.nodes :
        n \notin ReachableFrom({e[2] : e \in {d \in graph.edges : d[1] = n}},
                               graph.edges, Cardinality(graph.nodes))

\* (a variant that returns the files in any order)
RECURSIVE AnyOrder(_)
AnyOrder(graph) ==
    IF graph.nodes = {} THEN {<<>>}
    ELSE UNION {{<<n>> \o rest : rest \in AnyOrder([graph EXCEPT !.nodes = @ \ {n}])}
                : n \in graph.nodes}

\* nx.topological_sort: an order of the nodes in which every edge points
\* forward; which of these orders networkx returns depends on the order of
\* insertion, that is on the order of os.walk
RECURSIVE topological_sort(_)
topological_sort(graph) ==
    IF graph.nodes = {} THEN {<<>>}
    ELSE UNION {{<<n>> \o rest : rest \in topological_sort([graph EXCEPT !.nodes = @ \ {n}])}
                : n \in {m \in graph.nodes :
                           \A e \in graph.edges : e[2] = m => e[1] \notin graph.nodes \ {m}}}

\* _update_schema, on the labels of the tracked schema["nodes"]
_update_schema(schema, analysis) == schema \cup analysis.created_nodes

\* what session.run is given, with the executed_files and the completed
\* files of the moment it is sent
SentStatements(ing, filepath, statements, n, failing) ==
    [j \in 1..n |->
        [file |-> filepath, index |-> j, statement |-> statements[j],
         ok |-> j # failing,
         executed_files |-> ing.executed_files,
         completed |-> ing.completed]]

\* (a variant that marks the file as executed before it runs its statements)
execute_cql_file_marking_first(ing, filepath, failing) ==
    IF filepath \in ing.executed_files THEN ing
    ELSE IF ing.driver = "none" THEN [ing EXCEPT !.last.raised = "AttributeError"]
    ELSE LET statements == SelectSeq(_split_cql_statements(CqlFiles[filepath].content),
                                     LAMBDA st : Strip(st) # <<>>)
             fails == failing \in 1..Len(statements)
             n == IF fails THEN failing ELSE Len(statements)
             sent == SentStatements(ing, filepath, statements, n, failing)
         IN IF fails
            THEN [ing EXCEPT !.last.sent = @ \o sent,
                             !.last.raised = "Neo4jError",
                             !.executed_files = @ \cup {filepath}]
            ELSE [ing EXCEPT !.last.sent = @ \o sent,
                             !.executed_files = @ \cup {filepath},
                             !.schema = _update_schema(@, analyze_file_content(filepath)),
                             !.completed = @ \cup {filepath}]

\* execute_cql_file; `failing` is the index of the statement the store
\* rejects, 0 when it accepts them all
execute_cql_file(ing, filepath, failing) ==
    IF filepath \in ing.executed_files THEN ing
    ELSE IF ing.driver = "none" THEN [ing EXCEPT !.last.raised = "AttributeError"]
    ELSE LET statements == SelectSeq(_split_cql_statements(CqlFiles[filepath].content),
                                     LAMBDA st : Strip(st) # <<>>)
             fails == failing \in 1..Len(statements)
             n == IF fails THEN failing ELSE Len(statements)
             sent == SentStatements(ing, filepath, statements, n, failing)
         IN IF fails
            THEN [ing EXCEPT !.last.sent = @ \o sent,
                             !.last.raised = "Neo4jError"]
            ELSE [ing EXCEPT !.last.sent = @ \o sent,
                             !.executed_files = @ \cup {filepath},
                             !.schema = _update_schema(@, analyze_file_content(filepath)),
                             !.completed = @ \cup {filepath}]

\* the loop of execute_all: it ends at the first exception
RECURSIVE ExecuteInOrder(_, _, _)
ExecuteInOrder(ing, execution_order, failing) ==
    IF execution_order = <<>> \/ ing.last.raised # None THEN ing
    ELSE ExecuteInOrder(
            execute_cql_file(ing, Head(execution_order),
                             IF failing.file = Head(execution_order)
                             THEN failing.statement ELSE 0),
            Tail(execution_order), failing)

NoFailure == [file |-> None, statement |-> 0]

\* the statement the store rejects during a call, if any
Failures ==
    {NoFailure}
    \cup UNION {{[file |-> f, statement |-> j] :
                    j \in 1..Len(_split_cql_statements(CqlFiles[f].content))}
                 : f \in CqlPaths}

StartCall(op, arg, files) ==
    [ingestor EXCEPT
        !.calls = @ + 1,
        !.last = [op |-> op, arg |-> arg, files |-> files, raised |-> None,
                  sent |-> <<>>,
                  before |-> [executed_files |-> ingestor.executed_files,
                              schema |-> ingestor.schema]]]

\* Neo4jIngestor.connect
Connect ==
    /\ ingestor.driver = "none"
    /\ ingestor' = [ingestor EXCEPT !.driver = "open"]
    /\ UNCHANGED <<genVars, callVars, split, dbm, engine>>

ExecuteCqlFile ==
    /\ ingestor.calls < MaxCalls
    /\ \E filepath \in CqlPaths, failing \in Failures :
         /\ failing.file \in {None, filepath}
         /\ ingestor' = execute_cql_file(StartCall("execute_cql_file", filepath, {filepath}),
                                         filepath, failing.statement)
    /\ UNCHANGED <<genVars, callVars, split, dbm, engine>>

ExecuteAll ==
    /\ ingestor.calls < MaxCalls
    /\ \E directory \in DOMAIN Directories, failing \in Failures :
         LET files == scan_directory(directory)
             start == [StartCall("execute_all", directory, files) EXCEPT
                          !.dependency_graph = build_dependency_graph(@, files)]
         IN IF ~is_directed_acyclic_graph(start.dependency_graph)
            THEN ingestor' = [start EXCEPT !.last.raised = "ValueError"]
            ELSE \E execution_order \in topological_sort(start.dependency_graph) :
                    ingestor' = ExecuteInOrder(start, execution_order, failing)
    /\ UNCHANGED <<genVars, callVars, split, dbm, engine>>

InitIngest ==
    /\ GeneratorIdle
    /\ ingestor = IngestorInit
    /\ split = NoSplit
    /\ dbm = DbmInit
    /\ engine = EngineInit

NextIngest ==
    \/ Connect
    \/ ExecuteCqlFile
    \/ ExecuteAll

SpecIngest == InitIngest /\ [][NextIngest]_vars

\* the files of a call's directory that create a label `file` matches and
\* does not create itself
CreatorsFor(files, this_file, label) ==
    {g \in files \ {this_file} : label \in analyze_file_content(g).created_nodes}

NeededLabels(this_file) == analyze_file_content(this_file).required_nodes

\* the dependencies among `files` are circular: some file needs, through a
\* chain of needed labels, a label that only files needing it in turn create
Circular(files) ==
    ~is_directed_acyclic_graph([nodes |-> files, edges |-> DependencyEdges(files)])

C25_WitnessCircular ==
    LET c == ingestor.last
    IN /\ c.op = "execute_all"
       /\ c.arg = "data/loop"
       /\ ingestor.driver = "open"
       /\ c.raised = "ValueError"

\* the files all of whose statements were sent and accepted during the call
CompletedIn(c) ==
    {f \in CqlPaths :
        LET accepted == {c.sent[i].index : i \in {j \in DOMAIN c.sent :
                                                    c.sent[j].file = f /\ c.sent[j].ok}}
        IN accepted = 1..Len(_split_cql_statements(CqlFiles[f].content)) /\ accepted # {}}

\* C26: a file is in executed_files only if all its statements were run
\* without error; no statement is sent for a file that is in executed_files
\* at that moment; and a call that a failing statement ends re-raises with
\* the failing file not added to executed_files, executed_files and the
\* tracked schema holding only what the files completed before it added.
C26_ExecutedMeansCompleted ==
    LET c == ingestor.last
    IN /\ ingestor.executed_files \subseteq ingestor.completed
       /\ \A i \in 1..Len(c.sent) : c.sent[i].file \notin c.sent[i].executed_files
       /\ \A i \in 1..Len(c.sent) : ~c.sent[i].ok => c.raised = "Neo4jError" /\ i = Len(c.sent)
       /\ c.raised = "Neo4jError" =>
            /\ c.sent # <<>>
            /\ ~c.sent[Len(c.sent)].ok
            /\ c.sent[Len(c.sent)].file \notin ingestor.executed_files
            /\ ingestor.executed_files = c.before.executed_files \cup CompletedIn(c)
            /\ ingestor.schema =
                  c.before.schema
                  \cup UNION {analyze_file_content(f).created_nodes : f \in CompletedIn(c)}
            /\ c.op = "execute_cql_file" =>
                  /\ ingestor.executed_files = c.before.executed_files
                  /\ ingestor.schema = c.before.schema

C26_Witness ==
    LET c == ingestor.last
    IN /\ c.raised = "Neo4jError"
       /\ c.op = "execute_all"
       /\ Len(c.sent) = 2
       /\ c.sent[2].file = "data/main/core/a.cql"
       /\ c.before.executed_files # {}

C26_WitnessSkipped ==
    LET c == ingestor.last
    IN /\ c.op = "execute_cql_file"
       /\ c.arg \in c.before.executed_files
       /\ c.raised = None
       /\ c.sent = <<>>

\* -------------------------------------------- _split_cql_statements alone
\* bound on the length of a script
MaxLen == 4

\* a regular character, the separator, the two quotes, the backslash, a blank
Alphabet == {"a", ";", "'", "\"", "\\", " "}

Scripts == UNION {[1..n -> Alphabet] : n \in 0..MaxLen}

SplitCql ==
    /\ ~split.done
    /\ split' = [split EXCEPT !.statements = _split_cql_statements(split.cql),
                              !.done = TRUE]
    /\ UNCHANGED <<genVars, callVars, ingestor, dbm, engine>>

InitSplit ==
    /\ GeneratorIdle
    /\ ingestor = IngestorInit
    /\ split \in {[NoSplit EXCEPT !.cql = cql] : cql \in Scripts}
    /\ dbm = DbmInit
    /\ engine = EngineInit

NextSplit == SplitCql

SpecSplit == InitSplit /\ [][NextSplit]_vars

\* the positions of the semicolons of a text inside and outside its string
\* literals: a literal runs from a quote to the next same quote, and a
\* character after a backslash is neither a quote nor a semicolon
RECURSIVE Semicolons(_, _, _)
Semicolons(text, i, s) ==
    IF i > Len(text) THEN s
    ELSE Semicolons(text, i + 1,
            IF s.escaped THEN [s EXCEPT !.escaped = FALSE]
            ELSE IF text[i] = "\\" THEN [s EXCEPT !.escaped = TRUE]
            ELSE IF s.quote # None
            THEN IF text[i] = s.quote THEN [s EXCEPT !.quote = None]
                 ELSE IF text[i] = ";" THEN [s EXCEPT !.inside = @ \cup {i}]
                 ELSE s
            ELSE IF text[i] \in {"'", "\""} THEN [s EXCEPT !.quote = text[i]]
            ELSE IF text[i] = ";" THEN [s EXCEPT !.outside = @ \cup {i}]
            ELSE s)

SemicolonsOf(text) ==
    Semicolons(text, 1, [quote |-> None, escaped |-> FALSE, inside |-> {}, outside |-> {}])

RECURSIVE InsideCount(_)
InsideCount(statements) ==
    IF statements = <<>> THEN 0
    ELSE Cardinality(SemicolonsOf(Head(statements)).inside) + InsideCount(Tail(statements))

\* C27: of the script given to _split_cql_statements, every semicolon inside
\* a string literal is still inside a string literal of a returned statement
\* (none ended a statement), no returned statement is empty, and no returned
\* statement contains a semicolon outside a string literal.
C27_SplitsOutsideStrings ==
    split.done =>
        /\ InsideCount(split.statements) = Cardinality(SemicolonsOf(split.cql).inside)
        /\ \A i \in 1..Len(split.statements) : split.statements[i] # <<>>
        /\ \A i \in 1..Len(split.statements) :
              SemicolonsOf(split.statements[i]).outside = {}

\* ======================================= sunflower: db_manager.py, app.py
\* bound on the requests and calls that reach the DatabaseManager
MaxConnects == 2

\* the value save_connections writes in place of a password
Mask == "********"

Passwords == {"s3cret", "hunter2"}

\* the name argument of connect
ConnectionNames == {None, "prod", "My DB"}

\* f"connection_{len(self.connections) + 1}"
DefaultConnectionNames ==
    <<"connection_1", "connection_2", "connection_3", "connection_4", "connection_5",
      "connection_6">>

\* f"connection_{uri.replace('://', '_').replace(':', '_').replace('/', '_')}"
AppConnectionName ==
    (DefaultUri :> "connection_bolt_localhost_7687")
    @@ (RemoteUri :> "connection_bolt_remote_7687")

\* the path generate_module returns for graph
\* f"sunflower_{name.replace(' ', '_').lower()}"
ModulePath ==
    ("prod" :> "sunflower_prod.py") @@ ("My DB" :> "sunflower_my_db.py")
    @@ ("connection_1" :> "sunflower_connection_1.py")
    @@ ("connection_2" :> "sunflower_connection_2.py")
    @@ ("connection_3" :> "sunflower_connection_3.py")
    @@ ("connection_4" :> "sunflower_connection_4.py")
    @@ ("connection_5" :> "sunflower_connection_5.py")
    @@ ("connection_6" :> "sunflower_connection_6.py")
    @@ ("connection_bolt_localhost_7687" :> "sunflower_connection_bolt_localhost_7687.py")
    @@ ("connection_bolt_remote_7687" :> "sunflower_connection_bolt_remote_7687.py")

\* d[key] = value on a dict
Put(d, key, value) ==
    [k \in DOMAIN d \cup {key} |-> IF k = key THEN value ELSE d[k]]

\* dict restricted to some of its keys
Restrict(d, keys) == [k \in keys |-> d[k]]

\* (a variant that writes the connections as they are)
save_connections_as_is(d, save) ==
    IF save.result = "open fails" THEN d
    ELSE [d EXCEPT !.file =
            [exists |-> TRUE,
             complete |-> save.result = "ok",
             entries |-> Restrict(d.connections,
                                  IF save.result = "ok" THEN DOMAIN d.connections
                                  ELSE save.written \cap DOMAIN d.connections)]]

\* save_connections: open(..., 'w') truncates the file, json.dump writes a
\* copy of every connection with its password replaced by the mask; an
\* exception is printed, not raised: one at open leaves the file as it was,
\* one during the dump leaves the part already written
save_connections(d, save) ==
    LET safe_connections ==
            [name \in DOMAIN d.connections |->
                [d.connections[name] EXCEPT !.password = Mask]]
    IN IF save.result = "open fails" THEN d
       ELSE [d EXCEPT !.file =
               [exists |-> TRUE,
                complete |-> save.result = "ok",
                entries |-> Restrict(safe_connections,
                                     IF save.result = "ok" THEN DOMAIN d.connections
                                     ELSE save.written \cap DOMAIN d.connections)]]

\* (a variant that records the connection before it calls the generator)
connect_storing_first(d, uri, username, password, name, module_generator, outcome) ==
    IF module_generator = None
    THEN [d EXCEPT !.last.success = FALSE,
                   !.last.message = "Module Generator not available"]
    ELSE LET named == IF name = None
                      THEN DefaultConnectionNames[Cardinality(DOMAIN d.connections) + 1]
                      ELSE name
             stored == [d EXCEPT !.connections =
                          Put(@, named,
                              [uri |-> uri, username |-> username, password |-> password,
                               module_path |-> ModulePath[named],
                               created |-> outcome.created])]
             saved == save_connections(stored, outcome.save)
         IN IF outcome.generator = "raises"
            THEN [saved EXCEPT !.last.success = FALSE,
                               !.last.message = "Connection failed"]
            ELSE [saved EXCEPT !.current_connection = named,
                               !.last.success = TRUE,
                               !.last.message = "Connected to database"]

\* DatabaseManager.connect; outcome says whether the generator returns or
\* raises, what os.path.getmtime gives for the module it wrote and how the
\* save goes
connect(d, uri, username, password, name, module_generator, outcome) ==
    IF module_generator = None
    THEN [d EXCEPT !.last.success = FALSE,
                   !.last.message = "Module Generator not available"]
    ELSE LET named == IF name = None
                      THEN DefaultConnectionNames[Cardinality(DOMAIN d.connections) + 1]
                      ELSE name
         IN IF outcome.generator = "raises"
            THEN [d EXCEPT !.last.success = FALSE,
                           !.last.message = "Connection failed"]
            ELSE LET stored == [d EXCEPT !.connections =
                                  Put(@, named,
                                      [uri |-> uri, username |-> username,
                                       password |-> password,
                                       module_path |-> ModulePath[named],
                                       created |-> outcome.created])]
                     saved == save_connections(stored, outcome.save)
                 IN [saved EXCEPT !.current_connection = named,
                                  !.last.success = TRUE,
                                  !.last.message = "Connected to database"]

\* how a save can go; `written` is the part a failing dump leaves
Saves ==
    {[result |-> "ok", written |-> {}], [result |-> "open fails", written |-> {}]}
    \cup {[result |-> "write fails", written |-> w] : w \in {{}, {"prod"}}}

Outcomes ==
    {[generator |-> g, created |-> c, save |-> s] :
        g \in {"returns", "raises"}, c \in {"mtime"}, s \in Saves}

StartDbCall(op) ==
    [dbm EXCEPT !.calls = @ + 1,
                !.last = [op |-> op, success |-> TRUE, message |-> None,
                          before |-> [connections |-> dbm.connections,
                                      current_connection |-> dbm.current_connection,
                                      file |-> dbm.file]]]

\* a call of db_manager.connect
DbConnect ==
    /\ dbm.calls < MaxConnects
    /\ \E uri \in Uris, password \in Passwords, name \in ConnectionNames,
          module_generator \in {None, "generate_module"}, outcome \in Outcomes :
         dbm' = connect(StartDbCall("connect"), uri, "neo4j", password, name,
                        module_generator, outcome)
    /\ UNCHANGED <<genVars, callVars, ingestor, split, engine>>

\* a call of db_manager.save_connections
SaveConnections ==
    /\ dbm.calls < MaxConnects
    /\ \E save \in Saves :
         dbm' = save_connections(StartDbCall("save_connections"), save)
    /\ UNCHANGED <<genVars, callVars, ingestor, split, engine>>

\* POST /connect of app.py: a direct connection is tried first; when it
\* fails the handler answers at once; otherwise it calls db_manager.connect
\* if the module generator could be imported, and stores the connection in
\* the web session whatever that call returned
AppConnect ==
    /\ dbm.calls < MaxConnects
    /\ \E uri \in Uris, password \in Passwords, direct \in {"succeeds", "fails"},
          outcome \in Outcomes :
         LET connection_name == AppConnectionName[uri]
             start == StartDbCall("connect")
             called == connect(start, uri, "neo4j", password, connection_name,
                               "generate_module", outcome)
         IN dbm' =
              IF direct = "fails" THEN [start EXCEPT !.last.op = "request"]
              ELSE [(IF dbm.module_generator_available THEN called
                     ELSE [start EXCEPT !.last.op = "request"])
                    EXCEPT !.session =
                       [current_connection |-> connection_name,
                        connection_details |->
                           [uri |-> uri, username |-> "neo4j", password |-> password]]]
    /\ UNCHANGED <<genVars, callVars, ingestor, split, engine>>

\* a connections file that an earlier process of the application saved
SavedBefore ==
    ("prod" :>
        [uri |-> DefaultUri, username |-> "neo4j", password |-> Mask,
         module_path |-> "sunflower_prod.py", created |-> "mtime"])

\* the manager after __init__: load_connections reads the file if there is one
InitDb ==
    /\ GeneratorIdle
    /\ ingestor = IngestorInit
    /\ split = NoSplit
    /\ engine = EngineInit
    /\ \E available \in BOOLEAN :
         dbm \in {[DbmInit EXCEPT !.module_generator_available = available],
                  [DbmInit EXCEPT !.module_generator_available = available,
                                  !.connections = SavedBefore,
                                  !.file = [exists |-> TRUE, complete |-> TRUE,
                                            entries |-> SavedBefore]]}

NextDb ==
    \/ DbConnect
    \/ SaveConnections
    \/ AppConnect

SpecDb == InitDb /\ [][NextDb]_vars

\* C28: when connect returns success=False, the in-memory connections, the
\* connections file and current_connection are what they were before the call.
C28_FailedConnectChangesNothing ==
    dbm.last.op = "connect" /\ ~dbm.last.success =>
        /\ dbm.connections = dbm.last.before.connections
        /\ dbm.file = dbm.last.before.file
        /\ dbm.current_connection = dbm.last.before.current_connection

C28_Witness ==
    /\ dbm.last.op = "connect"
    /\ ~dbm.last.success
    /\ dbm.last.message = "Connection failed"
    /\ dbm.last.before.connections # <<>>
    /\ dbm.last.before.file.exists
    /\ dbm.last.before.current_connection # None

C28_WitnessNoGenerator ==
    /\ dbm.last.op = "connect"
    /\ ~dbm.last.success
    /\ dbm.last.message = "Module Generator not available"
    /\ dbm.calls = 2

\* C29: every password field of the connections file is the mask, and no
\* field of the file holds a password that was given to connect.
C29_FileHoldsNoPassword ==
    \A name \in DOMAIN dbm.file.entries :
        LET entry == dbm.file.entries[name]
        IN /\ entry.password = Mask
           /\ \A field \in DOMAIN entry : entry[field] \notin Passwords

C29_Witness ==
    \E name \in DOMAIN dbm.file.entries :
        /\ name \in DOMAIN dbm.connections
        /\ dbm.connections[name].password \in Passwords
        /\ dbm.file.entries[name].password = Mask
        /\ dbm.last.op = "save_connections"

\* ============================== predictive-relationship-inference.py
\* bound on the predict_potential_relationships calls on one engine
MaxPredictions == 2

\* a node as an accessor of the graph module returns it: props are the
\* properties in the order of the store, uuid is the value of the uuid
\* property, <<>> (None) for a node that has none
Identified(uuid, x) ==
    [uuid |-> <<uuid>>,
     props |-> <<[key |-> "uuid", val |-> uuid], [key |-> "x", val |-> x]>>]

Anonymous(x, y) ==
    [uuid |-> <<>>,
     props |-> <<[key |-> "x", val |-> x], [key |-> "y", val |-> y]>>]

\* contents of the store, by label: s2 is s1 with a property of node 1
\* changed, s3 is s1 with a node added, s4 holds nodes without uuid
PriStores ==
    ("s1" :> [A |-> <<Identified(1, 5)>>, B |-> <<Identified(2, 9)>>])
    @@ ("s2" :> [A |-> <<Identified(1, 0)>>, B |-> <<Identified(2, 9)>>])
    @@ ("s3" :> [A |-> <<Identified(1, 5), Identified(3, 7)>>, B |-> <<Identified(2, 9)>>])
    @@ ("s4" :> [A |-> <<Anonymous(1, 2)>>, B |-> <<Anonymous(5, 3)>>])

PriLabels == {"A", "B"}

\* getattr(self.graph_module.nodes, label.lower().replace(':', '_'))()
NodesOf(store, label) == PriStores[store][label]

\* the loop over node['props']: integer values are features as they are
\* (the properties of these stores are integers), [0] when there is none
RawFeatures(node) ==
    IF node.props = <<>> THEN <<0>>
    ELSE [i \in 1..Len(node.props) |-> node.props[i].val]

\* StandardScaler().fit_transform on the column of one node's features:
\* (v - mean) / std, std taken as 1 when it is 0. For one value, and for
\* two equal values, that is zeros; for two different values v1, v2 the
\* mean is (v1 + v2) / 2 and std is |v1 - v2| / 2, so the result is -1 and 1
Standardize(features) ==
    IF Len(features) = 1 THEN <<0>>
    ELSE IF features[1] = features[2] THEN <<0, 0>>
    ELSE IF features[1] < features[2] THEN <<-1, 1>>
    ELSE <<1, -1>>

\* _extract_node_features: the cache is keyed by node['uuid']
_extract_node_features(cache, node) ==
    IF node.uuid \in DOMAIN cache
    THEN [cache |-> cache,
          feature_vector |-> cache[node.uuid].feature_vector,
          stale |-> cache[node.uuid].node # node]
    ELSE LET feature_vector == Standardize(RawFeatures(node))
         IN [cache |-> [k \in DOMAIN cache \cup {node.uuid} |->
                          IF k = node.uuid
                          THEN [feature_vector |-> feature_vector, node |-> node]
                          ELSE cache[k]],
             feature_vector |-> feature_vector,
             stale |-> FALSE]

\* [self._extract_node_features(node) for node in nodes]
RECURSIVE ExtractAll(_, _)
ExtractAll(acc, nodes) ==
    IF nodes = <<>> THEN acc
    ELSE LET one == _extract_node_features(acc.cache, Head(nodes))
         IN ExtractAll([cache |-> one.cache,
                        features |-> Append(acc.features, one.feature_vector),
                        stale |-> acc.stale \/ one.stale],
                       Tail(nodes))

Dot(x, y) == IF Len(x) = 1 THEN x[1] * y[1] ELSE x[1] * y[1] + x[2] * y[2]

\* the cosine of two standardized vectors: 0 if one is all zeros, else the
\* dot product over the product of the norms, which is 2 for vectors of -1, 1
Cosine(x, y) ==
    IF Dot(x, x) = 0 \/ Dot(y, y) = 0 THEN 0 ELSE Dot(x, y) \div 2

\* sklearn's cosine_similarity(source_features, target_features)
cosine_similarity(source_features, target_features) ==
    [i \in 1..Len(source_features) |->
        [j \in 1..Len(target_features) |->
            Cosine(source_features[i], target_features[j])]]

\* similarity >= self.confidence_threshold, with the default threshold 0.7
Confident(similarity) == similarity * 10 >= 7

\* both nodes of these stores have no location, department or industry
_infer_relationship_type(source_node, target_node) == "POTENTIALLY_RELATED"

\* the pairs of the double loop, in its order
Pairs(m, n) == [k \in 1..(m * n) |-> <<((k - 1) \div n) + 1, ((k - 1) % n) + 1>>]

\* predict_potential_relationships: neither cache is ever cleared; the
\* matrix cache is keyed by the pair of labels. Reading a cached matrix
\* beyond its rows or columns raises IndexError
predict_potential_relationships(e, source_label, target_label) ==
    LET source_nodes == NodesOf(e.store, source_label)
        target_nodes == NodesOf(e.store, target_label)
        sources == ExtractAll([cache |-> e._node_feature_cache, features |-> <<>>,
                               stale |-> FALSE], source_nodes)
        targets == ExtractAll([cache |-> sources.cache, features |-> <<>>,
                               stale |-> FALSE], target_nodes)
        key == <<source_label, target_label>>
        cached == key \in DOMAIN e._similarity_matrix_cache
        entry == IF cached THEN e._similarity_matrix_cache[key]
                 ELSE [similarity_matrix |->
                          cosine_similarity(sources.features, targets.features),
                       source_nodes |-> source_nodes,
                       target_nodes |-> target_nodes]
        similarity_matrix == entry.similarity_matrix
        matrix_cache == [k \in DOMAIN e._similarity_matrix_cache \cup {key} |->
                           IF k = key THEN entry ELSE e._similarity_matrix_cache[k]]
        in_bounds == /\ Len(source_nodes) <= Len(similarity_matrix)
                     /\ Len(target_nodes) <= Len(similarity_matrix[1])
        pairs == SelectSeq(Pairs(Len(source_nodes), Len(target_nodes)),
                           LAMBDA p : Confident(similarity_matrix[p[1]][p[2]]))
        stale == (IF sources.stale \/ targets.stale THEN {"feature vector"} ELSE {})
                 \cup (IF cached /\ (entry.source_nodes # source_nodes
                                     \/ entry.target_nodes # target_nodes)
                       THEN {"similarity matrix"} ELSE {})
    IN [e EXCEPT
          !._node_feature_cache = targets.cache,
          !._similarity_matrix_cache = matrix_cache,
          !.calls = @ + 1,
          !.last = [source_label |-> source_label, target_label |-> target_label,
                    store |-> e.store,
                    raised |-> IF in_bounds THEN None ELSE "IndexError",
                    stale |-> stale,
                    result |->
                       IF ~in_bounds THEN <<>>
                       ELSE [k \in 1..Len(pairs) |->
                               [source |-> source_nodes[pairs[k][1]],
                                target |-> target_nodes[pairs[k][2]],
                                confidence |-> similarity_matrix[pairs[k][1]][pairs[k][2]],
                                recommended_relationship_type |->
                                   _infer_relationship_type(source_nodes[pairs[k][1]],
                                                            target_nodes[pairs[k][2]])]]]]

Predict ==
    /\ engine.calls < MaxPredictions
    /\ \E source_label \in PriLabels, target_label \in PriLabels :
         engine' = predict_potential_relationships(engine, source_label, target_label)
    /\ UNCHANGED <<genVars, callVars, ingestor, split, dbm>>

\* the store changes between two calls
ChangeStore ==
    /\ \E store \in DOMAIN PriStores \ {engine.store} :
         engine' = [engine EXCEPT !.store = store]
    /\ UNCHANGED <<genVars, callVars, ingestor, split, dbm>>

InitPredict ==
    /\ GeneratorIdle
    /\ ingestor = IngestorInit
    /\ split = NoSplit
    /\ dbm = DbmInit
    /\ engine \in {[EngineInit EXCEPT !.store = store] : store \in DOMAIN PriStores}

NextPredict ==
    \/ Predict
    \/ ChangeStore

SpecPredict == InitPredict /\ [][NextPredict]_vars

\* what an engine with empty caches returns for the store of the last call
FreshPrediction ==
    predict_potential_relationships(
        [EngineInit EXCEPT !.store = engine.last.store],
        engine.last.source_label, engine.last.target_label).last

\* C30: every call of predict_potential_relationships returns what an engine
\* with empty caches returns for the nodes the accessors return at that
\* moment, and uses no cached similarity matrix or feature vector that was
\* computed from other nodes.
C30_CachesMatchStore ==
    engine.last.source_label # None =>
        /\ engine.last.raised = FreshPrediction.raised
        /\ engine.last.result = FreshPrediction.result
        /\ engine.last.stale = {}

====
